---------------------------- MODULE Spec2Model ----------------------------
(***************************************************************************)
(* Lazy pagination of mujinwebstackclient: QueryIterator / QueryResult     *)
(* (webstackclientutils.py) and GraphQueryIterator / LazyGraphQuery        *)
(* (webstackgraphclientutils.py), run against the paginated backend that   *)
(* the test suite simulates (test_webstackclient.py).                      *)
(*                                                                         *)
(* A backend item is identified with its original index: the simulated     *)
(* backend returns {'id': str(index)} for index in                         *)
(* range(offset, min(offset + limit, totalCount)).                         *)
(***************************************************************************)
EXTENDS Integers, Sequences, FiniteSets, TLC

\* webstackclientutils.py:4
maxQueryLimit == 100

\* ---------------------------------------------------------------- bounds
\* largest simulated collection
MaxTotal == 201
\* requested offsets 0..SmallOffset are tried next to the page-boundary ones
SmallOffset == 2
\* requested limits 1..SmallLimit are tried next to the page-boundary ones
SmallLimit == 2
\* indices up to Near away from the ends of a collection and from the page
\* boundaries are read
Near == 1
\* times the backend's collection changes size during a run
MaxChanges == 1
\* list methods applied to one collection
MaxOps == 1
\* most queries that fail in one run
MaxFailures == 2

\* testItem = {'id': 'testItem'}: an item that the backend does not hold
TestItem == -1

Min(a, b) == IF a < b THEN a ELSE b
Max(a, b) == IF a > b THEN a ELSE b

TotalCounts ==
    {0, 1, maxQueryLimit - 1, maxQueryLimit, maxQueryLimit + 1,
     2 * maxQueryLimit, MaxTotal}
Offsets ==
    (0..SmallOffset) \cup {maxQueryLimit - 1, maxQueryLimit, MaxTotal, MaxTotal + 1}
Limits ==
    (0..SmallLimit) \cup {maxQueryLimit - 1, maxQueryLimit, maxQueryLimit + 1,
                          2 * maxQueryLimit, MaxTotal + 1}
\* numbers of items a server hands out per request
PageSizes == {1, maxQueryLimit - 1, maxQueryLimit, maxQueryLimit + 1}

VARIABLES
    totalCount,       \* backend: number of items the server holds
    serverPageSize,   \* backend: most items the server returns for one request
    changes,          \* backend: number of times the collection has changed size
    failures,         \* backend: number of queries that have failed
    requestedOffset,  \* offset the caller constructed the iterator / collection with
    requestedLimit,   \* limit the caller constructed the iterator / collection with
    iterator,         \* the QueryIterator / GraphQueryIterator instance
    yielded,          \* items the iterator has returned so far, in order
    iterRet,          \* outcome of the latest next(): "none", "item", "StopIteration"
    qr,               \* the QueryResult instance
    lastOp,           \* the latest operation applied to qr: [name, arg]
    ret,              \* what that operation returned or raised
    fetches,          \* number of page fetches that operation issued
    requests,         \* the queries the latest operation issued: [offset, limit]
    plain,            \* a plain list holding the same range, given the same operations
    plainRet,         \* what the operation returned or raised on the plain list
    opsDone,          \* number of list methods applied so far
    callerFields,     \* the fields the caller passed to the decorated graph method
    returned,         \* what the decorated graph method returned or raised
    instances,        \* two instances side by side: <<first, second>>
    classAttrs,       \* the class attributes of GraphQueryIterator
    constructed,      \* the two instances as their constructors left them
    calls,            \* per instance, the arguments of the operations applied
    results,          \* per instance, what those operations returned or raised
    callerFunction,   \* the query function the caller constructed the iterator from
    target,           \* the instance's _queryFunction and positional arguments
    invoked,          \* the calls the latest operation made: [callee, firstArg]
    webSocket,        \* ControllerWebClientRaw._webSocket: a connection, or NoSocket
    subscriptions,    \* ControllerWebClientRaw._subscriptions: the ids registered
    connections,      \* per connection: "unused", "open", "broken", "closed", "refused"
    started,          \* server side: <<id, connection>> of the subscriptions started
    subscriptionLock, \* ControllerWebClientRaw._subscriptionLock: who holds it
    apiCall,          \* the caller thread's call in progress and its position
    coroutine,        \* the coroutine that call scheduled on the event loop
    listeners,        \* per connection: position of its _ListenToWebSocket task
    isok,             \* ControllerWebClientRaw._isok
    lastId            \* number of Subscription objects created so far

iterVars == <<iterator, yielded, iterRet>>
lazyVars == <<qr, lastOp, ret, fetches, plain, plainRet, opsDone>>
backendVars == <<totalCount, serverPageSize, changes, failures>>
requestVars == <<requestedOffset, requestedLimit>>
graphVars == <<callerFields, returned>>
pairVars == <<instances, classAttrs, constructed, calls, results>>
dispatchVars == <<callerFunction, target, invoked>>
socketVars == <<webSocket, subscriptions, connections, started, subscriptionLock,
                apiCall, coroutine, listeners, isok, lastId>>
vars == <<totalCount, serverPageSize, changes, failures, requestedOffset,
          requestedLimit, iterator, yielded, iterRet, qr, lastOp, ret, fetches,
          requests, plain, plainRet, opsDone, callerFields, returned,
          instances, classAttrs, constructed, calls, results,
          callerFunction, target, invoked,
          webSocket, subscriptions, connections, started, subscriptionLock,
          apiCall, coroutine, listeners, isok, lastId>>

\* ------------------------------------------------------- python helpers
\* [offset + 0, ..., offset + n - 1]
Range(offset, n) == [j \in 1..Max(0, n) |-> offset + j - 1]

\* s[:k] of a python list
SliceTo(s, k) ==
    IF k >= 0 THEN SubSeq(s, 1, Min(k, Len(s)))
    ELSE SubSeq(s, 1, Max(0, Len(s) + k))

\* ---------------------------------------------------------------- backend
\* _RegisterMockGetScenesAPI._GetResponse / _RegisterMockListEnvironmentsAPI:
\* the objects of range(offset, min(offset + limit, totalCount)); a server
\* whose page size is below the requested limit returns that many at most.
GetResponse(total, pageSize, offset, limit) ==
    [objects |-> Range(offset, Min(offset + Min(limit, pageSize), total) - offset),
     meta    |-> [total_count |-> total, limit |-> limit, offset |-> offset]]

\* --------------------------------------------------------- the iterators
\* GetMaximumQueryLimit(limit): the per-request page size for a requested limit
GetMaximumQueryLimit(limit) ==
    IF limit > 0 THEN Min(limit, maxQueryLimit) ELSE maxQueryLimit

\* __init__ that passes a positive limit on as the page size, unclamped
QueryIterator_Unclamped(offset, limit) ==
    [kind       |-> "rest",
     selected   |-> TRUE,
     offset     |-> offset,
     limit      |-> IF limit > 0 THEN limit ELSE maxQueryLimit,
     totalLimit |-> limit,
     items      |-> << >>,
     shouldStop |-> FALSE,
     count      |-> 0]

\* QueryIterator.__init__
QueryIterator(offset, limit) ==
    [kind       |-> "rest",
     selected   |-> TRUE,
     offset     |-> offset,
     limit      |-> IF limit > 0 THEN Min(limit, maxQueryLimit) ELSE maxQueryLimit,
     totalLimit |-> limit,
     items      |-> << >>,
     shouldStop |-> FALSE,
     count      |-> 0]

\* GraphQueryIterator.__init__; selected: the caller's fields select the
\* collection field, so that the responses carry it
GraphQueryIterator(offset, limit, selected) ==
    [kind       |-> "graph",
     selected   |-> selected,
     offset     |-> offset,
     limit      |-> GetMaximumQueryLimit(limit),
     totalLimit |-> limit,
     items      |-> << >>,
     shouldStop |-> FALSE,
     count      |-> 0]

\* what an operation returns or raises: a tag, an item or number, a list
Ret(tag, val, seq) == [tag |-> tag, val |-> val, seq |-> seq]
NoRet == Ret("none", 0, << >>)
Item(v) == Ret("item", v, << >>)
StopIteration == Ret("StopIteration", 0, << >>)
IndexError == Ret("IndexError", 0, << >>)
\* the exception of a query function whose request failed
FetchError == Ret("FetchError", 0, << >>)

\* one query as the query function receives it: offset and limit
Request(offset, limit) == [offset |-> offset, limit |-> limit]

\* next(), first branch: return an item from the internal buffer; reqs are
\* the queries this call of next() has issued
PopItem(it, reqs) ==
    [it       |-> [it EXCEPT !.items = Tail(@), !.count = @ + 1],
     ret      |-> Item(Head(it.items)),
     fetches  |-> Len(reqs),
     requests |-> reqs]

\* AfterQuery with the offset left where it was: the same page again
AfterQuery_StaleOffset(it, page) ==
    LET short   == Len(page) < it.limit
        reached == it.totalLimit # 0 /\ it.count + Len(page) >= it.totalLimit
    IN  [it EXCEPT
            !.shouldStop = @ \/ short \/ reached,
            !.items      = IF reached THEN SliceTo(page, it.totalLimit - it.count)
                           ELSE page]

\* AfterQuery with the buffer left untruncated when the limit is reached
AfterQuery_NoTruncation(it, page) ==
    LET short   == Len(page) < it.limit
        reached == it.totalLimit # 0 /\ it.count + Len(page) >= it.totalLimit
    IN  [it EXCEPT
            !.offset     = @ + Len(page),
            !.shouldStop = @ \/ short \/ reached,
            !.items      = page]

\* AfterQuery that takes a full page for the last one
AfterQuery_StopsAtFullPage(it, page) ==
    LET short   == Len(page) <= it.limit
        reached == it.totalLimit # 0 /\ it.count + Len(page) >= it.totalLimit
    IN  [it EXCEPT
            !.offset     = @ + Len(page),
            !.shouldStop = @ \/ short \/ reached,
            !.items      = IF reached THEN SliceTo(page, it.totalLimit - it.count)
                           ELSE page]

\* next(), after the query: offset bookkeeping and the two stop conditions
AfterQuery(it, page) ==
    LET short   == Len(page) < it.limit
        reached == it.totalLimit # 0 /\ it.count + Len(page) >= it.totalLimit
    IN  [it EXCEPT
            !.offset     = @ + Len(page),
            !.shouldStop = @ \/ short \/ reached,
            !.items      = IF reached THEN SliceTo(page, it.totalLimit - it.count)
                           ELSE page]

\* "if not rawResponse" left out: what the response holds is taken for a
\* last page of one item
NoActualItems_TakesFirstValue(it, reqs) ==
    [it       |-> [it EXCEPT !.shouldStop = TRUE, !.count = @ + 1],
     ret      |-> Item(0),
     fetches  |-> Len(reqs),
     requests |-> reqs]

\* GraphQueryIterator.next, "if not rawResponse": the response held meta /
\* __typename only, there are no actual items
NoActualItems(it, reqs) ==
    [it       |-> it,
     ret      |-> StopIteration,
     fetches  |-> Len(reqs),
     requests |-> reqs]

\* QueryIterator.next / GraphQueryIterator.next
RECURSIVE IteratorNext(_, _, _, _)
IteratorNext(it, total, pageSize, reqs) ==
    IF Len(it.items) # 0 THEN PopItem(it, reqs)
    ELSE IF it.shouldStop
         THEN [it |-> it, ret |-> StopIteration,
               fetches |-> Len(reqs), requests |-> reqs]
    ELSE IF it.kind = "graph" /\ ~it.selected
         THEN NoActualItems(it, Append(reqs, Request(it.offset, it.limit)))
    ELSE IteratorNext(
            AfterQuery(it, GetResponse(total, pageSize, it.offset, it.limit).objects),
            total, pageSize, Append(reqs, Request(it.offset, it.limit)))

\* next() when the query it issues, if it issues one, is answered with the
\* page given.  A page that leaves the buffer empty is an empty page, which
\* is short and sets the stop flag: the retry "return self.next()" raises
\* StopIteration without another query.
IteratorNextOn(it, page) ==
    IF Len(it.items) # 0 THEN PopItem(it, << >>)
    ELSE IF it.shouldStop
         THEN [it |-> it, ret |-> StopIteration, fetches |-> 0, requests |-> << >>]
    ELSE IF it.kind = "graph" /\ ~it.selected
         THEN NoActualItems(it, <<Request(it.offset, it.limit)>>)
    ELSE IF Len(AfterQuery(it, page).items) # 0
         THEN PopItem(AfterQuery(it, page), <<Request(it.offset, it.limit)>>)
    ELSE [it |-> AfterQuery(it, page), ret |-> StopIteration,
          fetches |-> 1, requests |-> <<Request(it.offset, it.limit)>>]

\* next() that moves the offset on before it queries
IteratorNextFails_OffsetFirst(it) ==
    [it       |-> [it EXCEPT !.offset = @ + it.limit],
     ret      |-> FetchError,
     fetches  |-> 1,
     requests |-> <<Request(it.offset, it.limit)>>]

\* next() with an empty buffer, not stopped, whose query raises: the
\* exception leaves next() at the call of the query function, before any
\* attribute is assigned
IteratorNextFails(it) ==
    [it       |-> it,
     ret      |-> FetchError,
     fetches  |-> 1,
     requests |-> <<Request(it.offset, it.limit)>>]

\* list(iterator): the items of repeated next() up to the first
\* StopIteration, and the number of queries issued on the way.  After a
\* next() that returned an item, the following calls only pop the buffer
\* (first branch of next()) until it is empty: they are taken together.
RECURSIVE Drain(_, _, _)
Drain(it, total, pageSize) ==
    LET r == IteratorNext(it, total, pageSize, << >>)
    IN  IF r.ret.tag = "StopIteration"
        THEN [items |-> << >>, fetches |-> r.fetches, requests |-> r.requests]
        ELSE LET popped == [r.it EXCEPT !.items = << >>, !.count = @ + Len(r.it.items)]
                 rest   == Drain(popped, total, pageSize)
             IN  [items    |-> <<r.ret.val>> \o r.it.items \o rest.items,
                  fetches  |-> r.fetches + rest.fetches,
                  requests |-> r.requests \o rest.requests]

\* ----------------------------------------------------- the plain list
\* an operation and its arguments: two integers (an index, an item, a
\* factor, slice bounds) and a list (the items to add, the other operand)
OpFull(name, arg, arg2, other) ==
    [name |-> name, arg |-> arg, arg2 |-> arg2, other |-> other]
Op(name, arg) == OpFull(name, arg, 0, << >>)

None == Ret("None", 0, << >>)
ValueError == Ret("ValueError", 0, << >>)
TypeError == Ret("TypeError", 0, << >>)
BoolRet(b) == Ret("bool", IF b THEN 1 ELSE 0, << >>)
IntRet(v) == Ret("int", v, << >>)
ListRet(l) == Ret("list", 0, l)

\* list.__getitem__(index) for an integer index
ListGetItem(l, index) ==
    LET i == IF index < 0 THEN Len(l) + index ELSE index
    IN  IF i < 0 \/ i >= Len(l) THEN IndexError ELSE Item(l[i + 1])

\* the position a slice bound stands for in a list of n items
SliceBound(n, k) == IF k < 0 THEN Max(0, n + k) ELSE Min(k, n)

\* l[a:b] = xs, and del l[a:b] for xs = []
ListSetSlice(l, a, b, xs) ==
    LET lo == SliceBound(Len(l), a)
        hi == Max(lo, SliceBound(Len(l), b))
    IN  SubSeq(l, 1, lo) \o xs \o SubSeq(l, hi + 1, Len(l))

\* l[a:b]
ListGetSlice(l, a, b) ==
    LET lo == SliceBound(Len(l), a)
        hi == Max(lo, SliceBound(Len(l), b))
    IN  SubSeq(l, lo + 1, hi)

ListReverse(l) == [j \in 1..Len(l) |-> l[Len(l) + 1 - j]]

\* l.sort(reverse=reverse) for a list of integers
ListSort(l, reverse) ==
    IF reverse THEN SortSeq(l, LAMBDA x, y : x > y)
    ELSE SortSeq(l, LAMBDA x, y : x < y)

\* l * k
ListMul(l, k) == [j \in 1..(Len(l) * Max(0, k)) |-> l[((j - 1) % Len(l)) + 1]]

\* the positions of x in l
Positions(l, x) == {j \in 1..Len(l) : l[j] = x}
First(S) == CHOOSE j \in S : \A k \in S : j <= k

\* the first position where two lists differ, or 0 when one is a prefix of
\* the other
FirstDifference(l, m) ==
    LET D == {j \in 1..Min(Len(l), Len(m)) : l[j] # m[j]}
    IN  IF D = {} THEN 0 ELSE First(D)

\* l < m for lists of integers
ListLess(l, m) ==
    LET d == FirstDifference(l, m)
    IN  IF d = 0 THEN Len(l) < Len(m) ELSE l[d] < m[d]

\* the list methods that QueryResult forwards to, on the list l: the list
\* afterwards and what the call returns or raises
ListApply(l, op) ==
    LET n == Len(l)
        i == IF op.arg < 0 THEN n + op.arg ELSE op.arg
        same(r) == [list |-> l, ret |-> r]
    IN  CASE op.name = "getitem"  -> same(ListGetItem(l, op.arg))
          [] op.name = "len"      -> same(Ret("len", n, << >>))
          [] op.name = "setitem"  ->
                IF i < 0 \/ i >= n THEN same(IndexError)
                ELSE [list |-> [l EXCEPT ![i + 1] = op.arg2], ret |-> None]
          [] op.name = "setslice" ->
                [list |-> ListSetSlice(l, op.arg, op.arg2, op.other), ret |-> None]
          [] op.name = "delitem"  ->
                IF i < 0 \/ i >= n THEN same(IndexError)
                ELSE [list |-> ListSetSlice(l, i, i + 1, << >>), ret |-> None]
          [] op.name = "delslice" ->
                [list |-> ListSetSlice(l, op.arg, op.arg2, << >>), ret |-> None]
          [] op.name = "append"   -> [list |-> Append(l, op.arg), ret |-> None]
          [] op.name = "extend"   -> [list |-> l \o op.other, ret |-> None]
          [] op.name = "insert"   ->
                [list |-> ListSetSlice(l, op.arg, op.arg, <<op.arg2>>), ret |-> None]
          [] op.name = "index"    ->
                IF Positions(l, op.arg) = {} THEN same(ValueError)
                ELSE same(IntRet(First(Positions(l, op.arg)) - 1))
          [] op.name = "pop"      ->
                IF n = 0 THEN same(IndexError)
                ELSE [list |-> SubSeq(l, 1, n - 1), ret |-> Item(l[n])]
          [] op.name = "count"    -> same(IntRet(Cardinality(Positions(l, op.arg))))
          [] op.name = "remove"   ->
                IF Positions(l, op.arg) = {} THEN same(ValueError)
                ELSE LET at == First(Positions(l, op.arg))
                     IN  [list |-> ListSetSlice(l, at - 1, at, << >>), ret |-> None]
          [] op.name = "reverse"  -> [list |-> ListReverse(l), ret |-> None]
          [] op.name = "sort"     ->
                [list |-> ListSort(l, op.arg = 1), ret |-> None]
          [] op.name = "iadd"     -> [list |-> l \o op.other, ret |-> Ret("self", 0, << >>)]
          [] op.name = "add"      -> same(ListRet(l \o op.other))
          [] op.name = "rmul"     -> same(ListRet(ListMul(l, op.arg)))
          [] op.name = "mul"      -> same(ListRet(ListMul(l, op.arg)))
          [] op.name = "imul"     ->
                [list |-> ListMul(l, op.arg), ret |-> Ret("self", 0, << >>)]
          [] op.name = "reversed" -> same(ListRet(ListReverse(l)))
          [] op.name = "contains" -> same(BoolRet(Positions(l, op.arg) # {}))
          [] op.name = "eq"       -> same(BoolRet(l = op.other))
          [] op.name = "ne"       -> same(BoolRet(l # op.other))
          [] op.name = "lt"       -> same(BoolRet(ListLess(l, op.other)))
          [] op.name = "gt"       -> same(BoolRet(ListLess(op.other, l)))
          [] op.name = "le"       -> same(BoolRet(~ListLess(op.other, l)))
          [] op.name = "ge"       -> same(BoolRet(~ListLess(l, op.other)))

\* ------------------------------------------------------- QueryResult
\* _APICall that keeps the meta of the first response
APICall_KeepsMeta(q, total, pageSize, offset) ==
    LET response == GetResponse(total, pageSize, offset, maxQueryLimit)
    IN  [q EXCEPT
            !.kwargs        = [offset |-> offset, limit |-> maxQueryLimit],
            !.items         = response.objects,
            !.meta          = IF q.meta.limit = 0 THEN response.meta ELSE @,
            !.currentOffset = offset]

\* _APICall that queries at the requested offset whatever offset it is given
APICall_AtRequestedOffset(q, total, pageSize, offset) ==
    LET response == GetResponse(total, pageSize, q.offset, maxQueryLimit)
    IN  [q EXCEPT
            !.kwargs        = [offset |-> q.offset, limit |-> maxQueryLimit],
            !.items         = response.objects,
            !.meta          = response.meta,
            !.currentOffset = offset]

\* _APICall that adds the page fetched to the pages cached before
APICall_KeepsOldPages(q, total, pageSize, offset) ==
    LET response == GetResponse(total, pageSize, offset, maxQueryLimit)
    IN  [q EXCEPT
            !.kwargs        = [offset |-> offset, limit |-> maxQueryLimit],
            !.items         = @ \o response.objects,
            !.meta          = response.meta,
            !.currentOffset = offset]

\* QueryResult._APICall: one webstack query that replaces the buffer
APICall(q, total, pageSize, offset) ==
    LET response == GetResponse(total, pageSize, offset, maxQueryLimit)
    IN  [q EXCEPT
            !.kwargs        = [offset |-> offset, limit |-> maxQueryLimit],
            !.items         = response.objects,
            !.meta          = response.meta,
            !.currentOffset = offset]

\* QueryResult.__getitem__ given scenes[start:stop], the outcomes by
\* interpreter.  Un-materialized, Python 3 passes the slice object to
\* __getitem__, where "index < 0" raises TypeError (a slice does not compare
\* with an integer); Python 2 serves a simple slice by list.__getslice__,
\* which reads the list storage, empty until FetchAll.
QueryResultGetSlice(q, start, stop) ==
    IF q.fetchedAll THEN {ListRet(ListGetSlice(q.list, start, stop))}
    ELSE {TypeError, ListRet(<< >>)}

\* _APICall that moves the cached page's offset before it queries
APICallFails_OffsetFirst(q, offset) ==
    [q EXCEPT !.kwargs        = [offset |-> offset, limit |-> maxQueryLimit],
              !.currentOffset = offset]

\* QueryResult._APICall when the query function raises: the query's
\* arguments are set, the buffer, the meta and the buffer's offset are not
APICallFails(q, offset) ==
    [q EXCEPT !.kwargs = [offset |-> offset, limit |-> maxQueryLimit]]

\* __init__ that fetches the first page of the collection, not the page at
\* the requested offset
QueryResult_FromStart(total, pageSize, offset, limit) ==
    APICall([kind          |-> "rest",
             offset        |-> offset,
             limit         |-> limit,
             kwargs        |-> [offset |-> offset, limit |-> limit],
             items         |-> << >>,
             meta          |-> [total_count |-> 0, limit |-> 0, offset |-> 0],
             currentOffset |-> 0,
             currentLimit  |-> maxQueryLimit,
             fetchedAll    |-> FALSE,
             list          |-> << >>],
            total, pageSize, 0)

\* QueryResult.__init__
QueryResult(total, pageSize, offset, limit) ==
    APICall([kind          |-> "rest",
             offset        |-> offset,
             limit         |-> limit,
             kwargs        |-> [offset |-> offset, limit |-> limit],
             items         |-> << >>,
             meta          |-> [total_count |-> 0, limit |-> 0, offset |-> 0],
             currentOffset |-> 0,
             currentLimit  |-> maxQueryLimit,
             fetchedAll    |-> FALSE,
             list          |-> << >>],
            total, pageSize, offset)

\* QueryResult.totalCount, .limit, .offset: the properties, as a triple
QueryResultTotalCount(q) == q.meta.total_count
QueryResultLimit(q) == q.meta.limit
QueryResultOffset(q) == q.meta.offset
Accessors(q) == <<QueryResultTotalCount(q), QueryResultLimit(q), QueryResultOffset(q)>>

\* __len__ that compares the limit alone with the total
QueryResultLen_IgnoresOffset(q) ==
    IF q.fetchedAll THEN Len(q.list)
    ELSE IF q.limit = 0 \/ q.limit >= q.meta.total_count
         THEN Max(0, q.meta.total_count - q.offset)
         ELSE q.limit

\* __len__ without the floor at 0
QueryResultLen_NoFloor(q) ==
    IF q.fetchedAll THEN Len(q.list)
    ELSE IF q.limit = 0 \/ q.offset + q.limit >= q.meta.total_count
         THEN q.meta.total_count - q.offset
         ELSE q.limit

\* QueryResult.__len__
QueryResultLen(q) ==
    IF q.fetchedAll THEN Len(q.list)
    ELSE IF q.limit = 0 \/ q.offset + q.limit >= q.meta.total_count
         THEN Max(0, q.meta.total_count - q.offset)
         ELSE q.limit

\* a negative index counted from the requested limit
NormalizeIndex_ByLimit(q, index) ==
    IF index < 0 THEN q.limit + index ELSE index

\* QueryResult.__getitem__: a negative index is counted from len(self)
NormalizeIndex(q, index) ==
    IF index < 0 THEN QueryResultLen(q) + index ELSE index

\* QueryResult.__getitem__ for an integer index; reqs are the queries this
\* call has issued so far
RECURSIVE QueryResultGetItem(_, _, _, _, _)
QueryResultGetItem(q, index0, total, pageSize, reqs) ==
    IF q.fetchedAll
    THEN [qr |-> q, ret |-> ListGetItem(q.list, index0),
          fetches |-> Len(reqs), requests |-> reqs]
    ELSE
    LET index  == NormalizeIndex(q, index0)
        offset == q.offset + index
        at     == offset - q.currentOffset
    IN  IF index >= QueryResultLen(q)
        THEN [qr |-> q, ret |-> IndexError, fetches |-> Len(reqs), requests |-> reqs]
        ELSE IF offset >= q.currentOffset /\ offset < q.currentOffset + maxQueryLimit
        \* buffer hit: self._items[offset - self._currentOffset]
        THEN [qr |-> q, ret |-> ListGetItem(q.items, at),
              fetches |-> Len(reqs), requests |-> reqs]
        \* drop buffer and query webstack again
        ELSE QueryResultGetItem(APICall(q, total, pageSize, offset), index,
                                total, pageSize,
                                Append(reqs, Request(offset, maxQueryLimit)))

\* FetchAll that starts from where the cached page is
FetchAll_FromCurrentOffset(q, total, pageSize) ==
    IF q.fetchedAll THEN [qr |-> q, fetches |-> 0, requests |-> << >>]
    ELSE LET all == Drain(QueryIterator(q.kwargs.offset, q.limit), total, pageSize)
         IN  [qr      |-> [q EXCEPT
                             !.kwargs     = [offset |-> q.kwargs.offset, limit |-> q.limit],
                             !.list       = all.items,
                             !.fetchedAll = TRUE],
              fetches |-> all.fetches, requests |-> all.requests]

\* FetchAll without the early return for a materialized collection
FetchAll_Again(q, total, pageSize) ==
    LET all == Drain(QueryIterator(q.offset, q.limit), total, pageSize)
    IN  [qr      |-> [q EXCEPT
                        !.kwargs     = [offset |-> q.offset, limit |-> q.limit],
                        !.list       = all.items,
                        !.fetchedAll = TRUE],
         fetches |-> all.fetches, requests |-> all.requests]

\* QueryResult.FetchAll
FetchAll(q, total, pageSize) ==
    IF q.fetchedAll THEN [qr |-> q, fetches |-> 0, requests |-> << >>]
    ELSE LET all == Drain(QueryIterator(q.offset, q.limit), total, pageSize)
         IN  [qr      |-> [q EXCEPT
                             !.kwargs     = [offset |-> q.offset, limit |-> q.limit],
                             !.list       = all.items,
                             !.fetchedAll = TRUE],
              fetches |-> all.fetches, requests |-> all.requests]

\* FetchAll that adds every page to the list as it arrives
FetchAllFails_KeepsPages(q, total, pageSize, k) ==
    LET all == Drain(QueryIterator(q.offset, q.limit), total, pageSize)
    IN  [qr       |-> [q EXCEPT
                          !.kwargs = [offset |-> q.offset, limit |-> q.limit],
                          !.list   = SubSeq(all.items, 1,
                                            Min(Len(all.items), (k - 1) * maxQueryLimit))],
         ret      |-> FetchError,
         fetches  |-> k,
         requests |-> SubSeq(all.requests, 1, k)]

\* QueryResult.FetchAll on an un-materialized collection when the k-th query
\* of the iterator raises: the exception leaves the list comprehension
\* before the list is initialised and before _fetchedAll is set
FetchAllFails(q, total, pageSize, k) ==
    LET all == Drain(QueryIterator(q.offset, q.limit), total, pageSize)
    IN  [qr       |-> [q EXCEPT !.kwargs = [offset |-> q.offset, limit |-> q.limit]],
         ret      |-> FetchError,
         fetches  |-> k,
         requests |-> SubSeq(all.requests, 1, k)]

\* --------------------------------------------------- LazyGraphQuery
\* LazyGraphQuery._APICall: one query of currentLimit items at currentOffset;
\* the response carries meta.totalCount and the collection field
GraphAPICall(q, total, pageSize) ==
    LET response == GetResponse(total, pageSize, q.currentOffset, q.currentLimit)
    IN  [q EXCEPT
            !.kwargs = [offset |-> q.currentOffset, limit |-> q.currentLimit],
            !.items  = response.objects,
            !.meta   = [total_count |-> response.meta.total_count,
                        limit |-> 0, offset |-> 0]]

\* LazyGraphQuery.__init__, for fields that select the collection: the meta
\* is fetched with a query of one item, then the page size is set
LazyGraphQuery(total, pageSize, offset, limit) ==
    [GraphAPICall([kind          |-> "graph",
                   offset        |-> offset,
                   limit         |-> limit,
                   kwargs        |-> [offset |-> offset, limit |-> limit],
                   items         |-> << >>,
                   meta          |-> [total_count |-> 0, limit |-> 0, offset |-> 0],
                   currentOffset |-> offset,
                   currentLimit  |-> 1,
                   fetchedAll    |-> FALSE,
                   list          |-> << >>],
                  total, pageSize)
     EXCEPT !.currentLimit = GetMaximumQueryLimit(limit)]

\* LazyGraphQuery.FetchAll
GraphFetchAll(q, total, pageSize) ==
    IF q.fetchedAll THEN [qr |-> q, fetches |-> 0, requests |-> << >>]
    ELSE LET all == Drain(GraphQueryIterator(q.offset, q.limit, TRUE), total, pageSize)
         IN  [qr      |-> [q EXCEPT
                             !.kwargs     = [offset |-> q.offset, limit |-> q.limit],
                             !.list       = all.items,
                             !.fetchedAll = TRUE],
              fetches |-> all.fetches, requests |-> all.requests]

\* LazyQuery.__len__, the length contract of the base class of LazyGraphQuery
LazyQueryLen(q) ==
    IF q.fetchedAll THEN Len(q.list)
    ELSE Max(0, IF q.limit # 0 THEN Min(q.limit, q.meta.total_count - q.offset)
                ELSE q.meta.total_count - q.offset)

\* LazyQuery.__getitem__, the indexed read of the base class of
\* LazyGraphQuery: from the cached page when the item is in it, else after
\* one query anchored at the item's offset
LazyQueryGetItem(q, index0, total, pageSize) ==
    IF q.fetchedAll
    THEN [qr |-> q, ret |-> ListGetItem(q.list, index0),
          fetches |-> 0, requests |-> << >>]
    ELSE
    LET index  == IF index0 < 0 THEN LazyQueryLen(q) + index0 ELSE index0
        offset == q.offset + index
        moved  == GraphAPICall([q EXCEPT !.currentOffset = offset], total, pageSize)
    IN  IF index < 0 \/ index >= LazyQueryLen(q)
        THEN [qr |-> q, ret |-> IndexError, fetches |-> 0, requests |-> << >>]
        ELSE IF offset >= q.currentOffset /\ offset < q.currentOffset + Len(q.items)
        THEN [qr |-> q, ret |-> ListGetItem(q.items, offset - q.currentOffset),
              fetches |-> 0, requests |-> << >>]
        ELSE [qr |-> moved, ret |-> ListGetItem(moved.items, 0),
              fetches |-> 1, requests |-> <<Request(offset, q.currentLimit)>>]

\* ------------------------------------------------- UseLazyGraphQuery
\* the top-level names a ListEnvironments query can select
FieldNames == {"__typename", "environments", "meta"}

\* what the name meta is bound to in a fields dict: None, {} or
\* {'totalCount': None}; "absent" when the dict has no meta
MetaSelections == {"absent", "None", "empty", "totalCount"}

\* the fields keyword of the caller: omitted, a dict or a list of names
CallerFields(form, names, metaFields) ==
    [form |-> form, names |-> names, metaFields |-> metaFields]

\* a fields dict
FieldsDict(names, metaFields) == [names |-> names, metaFields |-> metaFields]

\* the outcome of the decorated method: the exception raised, or the keys of
\* the dict returned, the totalCount under meta and the collection under the
\* collection key
Returned(raised, keys, metaTotalCount, queryResult) ==
    [raised |-> raised, keys |-> keys, metaTotalCount |-> metaTotalCount,
     queryResult |-> queryResult]

\* wrapper: kwargs.get('fields', {}) after a fields list is made a dict,
\* {key: None for key in fields}
WrapperFields(given) ==
    IF given.form = "list"
    THEN FieldsDict(given.names, IF "meta" \in given.names THEN "None" ELSE "absent")
    ELSE FieldsDict(given.names, given.metaFields)

\* the fields LazyGraphQuery queries with: __typename for a caller who
\* selected nothing, and meta.totalCount added unless meta is bound to None
CurrentFields(fields) ==
    LET base == IF fields.names = {} THEN FieldsDict({"__typename"}, "absent")
                ELSE fields
    IN  FieldsDict(base.names \cup {"meta"},
                   IF base.metaFields \in {"absent", "empty"} THEN "totalCount"
                   ELSE base.metaFields)

\* __init__ that works on the caller's own fields dict
InitFields_NoCopy(fields) ==
    [current |-> CurrentFields(fields),
     caller  |-> IF fields.names = {} THEN fields ELSE CurrentFields(fields)]

\* LazyGraphQuery.__init__, the selected fields: the fields it queries with
\* and the caller's fields afterwards, which the deepcopy of kwargs keeps
\* as they were
InitFields(fields) ==
    [current |-> CurrentFields(fields), caller |-> fields]

\* the top-level keys of the server's answer: the names selected, or
\* __typename when _CallSimpleGraphAPI is given no fields
ListEnvironmentsKeys(fields) ==
    IF fields.names = {} THEN {"__typename"} ELSE fields.names

\* UseLazyGraphQuery.wrapper
UseLazyGraphQuery(given, total, pageSize, offset, limit) ==
    LET init        == InitFields(WrapperFields(given))
        data        == ListEnvironmentsKeys(init.current)
        queryResult == LazyGraphQuery(total, pageSize, offset, limit)
        typeName    == data \cap {"__typename"}
        keyName     == data \ {"meta", "__typename"}
    IN  IF init.caller.metaFields = "None"
        THEN Returned("TypeError", {}, 0, queryResult)
        ELSE Returned("none",
                      typeName \cup keyName \cup
                          (IF init.caller.metaFields = "totalCount" THEN {"meta"} ELSE {}),
                      IF "meta" \in data THEN queryResult.meta.total_count ELSE 0,
                      queryResult)

\* --------------------------------------------- the collection's methods
\* len(collection)
LazyLen(q) == IF q.kind = "graph" THEN LazyQueryLen(q) ELSE QueryResultLen(q)

\* collection[index]
LazyGetItem(q, index, total, pageSize) ==
    IF q.kind = "graph" THEN LazyQueryGetItem(q, index, total, pageSize)
    ELSE QueryResultGetItem(q, index, total, pageSize, << >>)

\* collection.FetchAll()
LazyFetchAll(q, total, pageSize) ==
    IF q.kind = "graph" THEN GraphFetchAll(q, total, pageSize)
    ELSE FetchAll(q, total, pageSize)

\* a materializing method that goes to the list without FetchAll
Materializing_NoFetchAll(q, total, pageSize, op) ==
    LET r == ListApply(q.list, op)
    IN  [qr |-> [q EXCEPT !.list = r.list], ret |-> r.ret,
         fetches |-> 0, requests |-> << >>]

\* QueryResult.__setitem__ .. __ge__: self.FetchAll(), then the list's method
Materializing(q, total, pageSize, op) ==
    LET f == FetchAll(q, total, pageSize)
        r == ListApply(f.qr.list, op)
    IN  [qr |-> [f.qr EXCEPT !.list = r.list], ret |-> r.ret,
         fetches |-> f.fetches, requests |-> f.requests]

\* the other operand of a comparison, as the list compared with:
\* a QueryResult is first fetched in full (other.FetchAll())
OtherList(other, total, pageSize) ==
    IF other.isQueryResult
    THEN FetchAll(QueryResult(total, pageSize, other.offset, other.limit),
                  total, pageSize).qr.list
    ELSE other.list

\* ------------------------------------- instances and class attributes
\* most operations applied to one instance
MaxNext == 3

\* the attributes next() works on: _items, _shouldStop, _count
IterAttrs == {"items", "shouldStop", "count"}

\* an object: what it is, the attributes of IterAttrs bound in its own
\* __dict__, and the values of its attributes
Instance(type, bound, dict) == [type |-> type, bound |-> bound, dict |-> dict]

\* class GraphQueryIterator: _items = [], _shouldStop = False, _count = 0
GraphQueryIteratorClass == [items |-> << >>, shouldStop |-> FALSE, count |-> 0]

\* self.<attribute>: the instance's own value when it has one, else the
\* value of the class attribute
Self(inst, cls) ==
    IF inst.type = "collection" THEN inst.dict
    ELSE [inst.dict EXCEPT
             !.items      = IF "items" \in inst.bound THEN @ ELSE cls.items,
             !.shouldStop = IF "shouldStop" \in inst.bound THEN @ ELSE cls.shouldStop,
             !.count      = IF "count" \in inst.bound THEN @ ELSE cls.count]

\* QueryIterator.__init__ binds every attribute on the instance
NewQueryIterator(offset, limit) ==
    Instance("iterator", IterAttrs, QueryIterator(offset, limit))

\* GraphQueryIterator.__init__ binds the query and the limit only: _items,
\* _shouldStop and _count are read from the class until next() assigns them
NewGraphQueryIterator(offset, limit, selected) ==
    Instance("iterator", {}, GraphQueryIterator(offset, limit, selected))

\* QueryResult.__init__ binds every attribute on the instance
NewQueryResult(total, pageSize, offset, limit) ==
    Instance("collection", IterAttrs, QueryResult(total, pageSize, offset, limit))

\* the attributes whose value next() changed: those it assigned
Assigned(before, after) ==
    (IF after.items # before.items THEN {"items"} ELSE {}) \cup
    (IF after.shouldStop # before.shouldStop THEN {"shouldStop"} ELSE {}) \cup
    (IF after.count # before.count THEN {"count"} ELSE {})

\* attribute stores that land in the class while the instance has no
\* attribute of its own
Bind_OnClass(inst, cls, after) ==
    LET assigned == Assigned(Self(inst, cls), after) \ inst.bound
    IN  [inst |-> Instance(inst.type, inst.bound, after),
         cls  |-> [items      |-> IF "items" \in assigned THEN after.items ELSE cls.items,
                   shouldStop |-> IF "shouldStop" \in assigned THEN after.shouldStop
                                  ELSE cls.shouldStop,
                   count      |-> IF "count" \in assigned THEN after.count ELSE cls.count]]

\* self._items = ..., self._shouldStop = True, self._count += 1: the
\* assignments of next() bind the attribute on the instance and leave the
\* class attribute as it is
Bind(inst, cls, after) ==
    [inst |-> Instance(inst.type, inst.bound \cup Assigned(Self(inst, cls), after), after),
     cls  |-> cls]

\* one operation on an instance: next() of an iterator, collection[arg] of
\* a lazy collection
InstanceStep(inst, cls, arg, total, pageSize) ==
    IF inst.type = "collection"
    THEN LET r == QueryResultGetItem(inst.dict, arg, total, pageSize, << >>)
         IN  [inst |-> Instance(inst.type, inst.bound, r.qr), cls |-> cls, out |-> r.ret]
    ELSE LET r == IteratorNext(Self(inst, cls), total, pageSize, << >>)
             b == Bind(inst, cls, r.it)
         IN  [inst |-> b.inst, cls |-> b.cls, out |-> r.ret]

\* the same operations applied to an instance that is alone
RECURSIVE RunAlone(_, _, _, _, _)
RunAlone(inst, cls, args, total, pageSize) ==
    IF args = << >> THEN [inst |-> inst, cls |-> cls, outs |-> << >>]
    ELSE LET r    == InstanceStep(inst, cls, Head(args), total, pageSize)
             rest == RunAlone(r.inst, r.cls, Tail(args), total, pageSize)
         IN  [inst |-> rest.inst, cls |-> rest.cls, outs |-> <<r.out>> \o rest.outs]

\* __iter__ that leaves the keyword arguments as the latest page fetch set
\* them
LazyIter_KeepsKwargs(q) ==
    [qr |-> q,
     it |-> IF q.kind = "graph"
            THEN GraphQueryIterator(q.kwargs.offset, q.kwargs.limit, TRUE)
            ELSE QueryIterator(q.kwargs.offset, q.kwargs.limit)]

\* QueryResult.__iter__ / LazyGraphQuery.__iter__ of a collection that is
\* not materialized: the keyword arguments are set back to the requested
\* offset and limit and an iterator is constructed from them
LazyIter(q) ==
    LET reset == [q EXCEPT !.kwargs = [offset |-> q.offset, limit |-> q.limit]]
    IN  [qr |-> reset,
         it |-> IF q.kind = "graph"
                THEN GraphQueryIterator(reset.kwargs.offset, reset.kwargs.limit, TRUE)
                ELSE QueryIterator(reset.kwargs.offset, reset.kwargs.limit)]

\* ------------------------------------------------- query functions
\* a python object: its identity, and whether copy.deepcopy can copy it
Object(ident, copyable) == [ident |-> ident, copyable |-> copyable]

\* no object
NoObject == Object(0, TRUE)

\* the client instance whose query method is used; a ControllerWebClientRaw
\* holds a threading.Lock, which copy.deepcopy cannot copy, a stand-in
\* client can be copied
Client(copyable) == Object(1, copyable)

\* copy.deepcopy of an object: another object
CopyOf(obj) == [obj EXCEPT !.ident = @ + 1]

\* a query function that is not decorated
Function == [callable |-> "function", inner |-> FALSE, bself |-> NoObject]

\* UseQueryResult / UseLazyGraphQuery: instance.Method of a decorated
\* method is the wrapper bound to the instance; it carries wrapper.inner
DecoratedMethod(self) == [callable |-> "wrapper", inner |-> TRUE, bself |-> self]

\* what an instance keeps as _queryFunction and its positional arguments
Target(func, posargs) == [func |-> func, posargs |-> posargs, failed |-> FALSE]

\* the constructor raised
ConstructionFailed == [func |-> Function, posargs |-> << >>, failed |-> TRUE]

\* QueryIterator.__init__, 'if hasattr(queryFunction, "inner")'
BindQueryFunction(queryFunction, args) ==
    IF queryFunction.inner
    THEN Target(Function, <<queryFunction.bself>> \o args)
    ELSE Target(queryFunction, args)

\* GraphQueryIterator.__init__: the same, then copy.deepcopy(args)
GraphBindQueryFunction(queryFunction, args) ==
    LET bound == BindQueryFunction(queryFunction, args)
    IN  IF \A i \in DOMAIN bound.posargs : bound.posargs[i].copyable
        THEN [bound EXCEPT
                !.posargs = [i \in DOMAIN bound.posargs |-> CopyOf(bound.posargs[i])]]
        ELSE ConstructionFailed

\* the constructor of the iterator of the kind given
BindByKind(kind, queryFunction, args) ==
    IF kind = "graph" THEN GraphBindQueryFunction(queryFunction, args)
    ELSE BindQueryFunction(queryFunction, args)

\* one call as the callee sees it
Call(callee, posargs) ==
    [callee |-> callee,
     firstArg |-> IF posargs = << >> THEN NoObject ELSE posargs[1]]

\* self._queryFunction(*self._args, **self._kwargs), once per query: a plain
\* function is called as it is; a bound wrapper is called with its instance
\* first, constructs a lazy collection and that fetches its first page from
\* the undecorated function
Invocations(t, n) ==
    IF t.func.callable = "wrapper"
    THEN [i \in 1..(2 * n) |->
            Call(IF i % 2 = 1 THEN "wrapper" ELSE "function",
                 <<t.func.bself>> \o t.posargs)]
    ELSE [i \in 1..n |-> Call("function", t.posargs)]

\* ------------------------------------- ControllerWebClientRaw subscriptions
\* most Subscription objects the caller creates
MaxSubscriptions == 2

\* most websocket connections that are attempted
MaxConnections == 2

\* _webSocket is None
NoSocket == 0

Connections == 1..MaxConnections

\* the caller thread's call: the method, the subscription it is about, where
\* the thread is in it, and _subscriptions / _webSocket as the call found
\* them when it took the lock
ApiCall(entry, subject, step, seenSubs, seenSocket) ==
    [entry |-> entry, subject |-> subject, step |-> step,
     seenSubs |-> seenSubs, seenSocket |-> seenSocket]

\* the caller thread is in no call
NoCall == ApiCall("none", 0, "idle", {}, NoSocket)

\* a coroutine handed to BackgroundThread.RunCoroutine: which one, how far
\* it has run, and whether its send (or its connect) raised
Coroutine(routine, stage, threw) ==
    [routine |-> routine, stage |-> stage, threw |-> threw]

\* no coroutine is scheduled
NoCoroutine == Coroutine("none", "done", FALSE)

\* what the three shared attributes and the server's view become
Sockets(socket, subs, conns, st) ==
    [webSocket |-> socket, subscriptions |-> subs, connections |-> conns,
     started |-> st]

\* _CloseWebSocket: close() on the connection, then _webSocket = None; the
\* server forgets the subscriptions of a connection that is gone
CloseWebSocket(socket, subs, conns, st) ==
    IF socket = NoSocket THEN Sockets(socket, subs, conns, st)
    ELSE Sockets(NoSocket, subs,
                 IF conns[socket] = "open" THEN [conns EXCEPT ![socket] = "closed"]
                 ELSE conns,
                 {p \in st : p[2] # socket})

\* _StopAllSubscriptions: the websocket is closed, every callback is told
\* the error and the table is cleared
StopAllSubscriptions(socket, subs, conns, st) ==
    [CloseWebSocket(socket, subs, conns, st) EXCEPT !.subscriptions = {}]

\* _Unsubscribe that never finds the table empty
NoneLeft_Never(subs) == FALSE

\* _Unsubscribe, "if len(self._subscriptions) == 0"
NoneLeft(subs) == subs = {}

\* SubscribeGraphAPI after _Subscribe returned:
\* self._subscriptions[subscriptionId] = subscription
Register(subs, id, threw) == subs \cup {id}

\* the event-loop thread is inside a blocking acquire of _subscriptionLock
\* ("with self._subscriptionLock" in the listener coroutine): no coroutine
\* of the loop runs
LoopBlocked ==
    \E c \in Connections : listeners[c] \in {"acquiring", "failAcquiring"}

\* ------------------------------------------------------- specifications
Iterators(o, l) ==
    {QueryIterator(o, l)} \cup {GraphQueryIterator(o, l, s) : s \in BOOLEAN}

\* the items the backend holds in the range (o, l): allScenes[o:o+l], or
\* allScenes[o:] for l = 0
PlainRange(total, o, l) ==
    Range(o, (IF l = 0 THEN total ELSE Min(o + l, total)) - o)

\* no lazy collection is in play
IdleLazy ==
    /\ qr = QueryResult(0, maxQueryLimit, 0, 0)
    /\ lastOp = Op("none", 0)
    /\ ret = NoRet
    /\ fetches = 0
    /\ requests = << >>
    /\ plain = << >>
    /\ plainRet = NoRet
    /\ opsDone = 0

\* no pair of instances is in play
IdlePair ==
    /\ instances = << >>
    /\ classAttrs = GraphQueryIteratorClass
    /\ constructed = << >>
    /\ calls = << >>
    /\ results = << >>

\* no decorated graph method has been called
IdleGraph ==
    /\ callerFields = CallerFields("idle", {}, "absent")
    /\ returned = Returned("none", {}, 0, QueryResult(0, maxQueryLimit, 0, 0))

\* a client that was just constructed: no websocket, no subscription, no
\* background thread
IdleSocket ==
    /\ webSocket = NoSocket
    /\ subscriptions = {}
    /\ connections = [c \in Connections |-> "unused"]
    /\ started = {}
    /\ subscriptionLock = "free"
    /\ apiCall = NoCall
    /\ coroutine = NoCoroutine
    /\ listeners = [c \in Connections |-> "none"]
    /\ isok = TRUE
    /\ lastId = 0

\* no query function is followed
IdleDispatch ==
    /\ callerFunction = Function
    /\ target = Target(Function, << >>)
    /\ invoked = << >>

\* no separately held iterator is in play
IdleIter ==
    /\ iterator = QueryIterator(0, 0)
    /\ yielded = << >>
    /\ iterRet = "none"

\* an iterator constructed over a backend that serves every page in full
InitIter ==
    /\ totalCount \in TotalCounts
    /\ serverPageSize = maxQueryLimit
    /\ changes = 0
    /\ failures = 0
    /\ IdleSocket
    /\ IdleDispatch
    /\ IdleGraph
    /\ IdlePair
    /\ requestedOffset \in Offsets
    /\ requestedLimit \in Limits
    /\ iterator \in Iterators(requestedOffset, requestedLimit)
    /\ yielded = << >>
    /\ iterRet = "none"
    /\ IdleLazy

\* the same over servers of any page size
InitIterAnyPage ==
    /\ totalCount \in TotalCounts
    /\ serverPageSize \in PageSizes
    /\ changes = 0
    /\ failures = 0
    /\ IdleSocket
    /\ IdleDispatch
    /\ IdleGraph
    /\ IdlePair
    /\ requestedOffset \in Offsets
    /\ requestedLimit \in Limits
    /\ iterator \in Iterators(requestedOffset, requestedLimit)
    /\ yielded = << >>
    /\ iterRet = "none"
    /\ IdleLazy

\* one call of next() by the caller
Next_next ==
    \E r \in {IteratorNext(iterator, totalCount, serverPageSize, << >>)} :
        /\ iterator' = r.it
        /\ iterRet' = r.ret.tag
        /\ yielded' = IF r.ret.tag = "item" THEN Append(yielded, r.ret.val) ELSE yielded
        /\ requests' = r.requests
        /\ UNCHANGED <<backendVars, requestVars, socketVars, dispatchVars, graphVars, pairVars, lazyVars>>

NextIter == Next_next

\* an iterator that the caller keeps calling, over servers of any page size
InitIterLive ==
    /\ totalCount \in {0, 1, maxQueryLimit, MaxTotal}
    /\ serverPageSize \in PageSizes
    /\ changes = 0
    /\ failures = 0
    /\ IdleSocket
    /\ IdleDispatch
    /\ IdleGraph
    /\ IdlePair
    /\ requestedOffset \in {0, SmallOffset, MaxTotal + 1}
    /\ requestedLimit \in {0, SmallLimit, maxQueryLimit + 1}
    /\ iterator \in Iterators(requestedOffset, requestedLimit)
    /\ yielded = << >>
    /\ iterRet = "none"
    /\ IdleLazy

\* one call of next() of an iterator with a limit whose query the backend
\* answers with a page of any length: empty, short, full or longer than
\* asked for
NextOnAnyPage ==
    /\ requestedLimit > 0
    /\ Len(iterator.items) = 0
    /\ ~iterator.shouldStop
    /\ \E n \in {0, iterator.limit - 1, iterator.limit, iterator.limit + 1} :
           \E r \in {IteratorNextOn(iterator, Range(iterator.offset, n))} :
               /\ iterator' = r.it
               /\ iterRet' = r.ret.tag
               /\ yielded' = IF r.ret.tag = "item" THEN Append(yielded, r.ret.val)
                             ELSE yielded
               /\ requests' = r.requests
    /\ UNCHANGED <<backendVars, requestVars, socketVars, dispatchVars, graphVars, pairVars, lazyVars>>

NextIterLive == Next_next \/ NextOnAnyPage

\* an iterator over a backend whose queries can fail
InitIterFail ==
    /\ totalCount \in {0, maxQueryLimit + 1, MaxTotal}
    /\ serverPageSize = maxQueryLimit
    /\ changes = 0
    /\ failures = 0
    /\ IdleSocket
    /\ IdleDispatch
    /\ IdleGraph
    /\ IdlePair
    /\ requestedOffset \in {0, SmallOffset}
    /\ requestedLimit \in {0, SmallLimit, maxQueryLimit + 1}
    /\ iterator \in Iterators(requestedOffset, requestedLimit)
    /\ yielded = << >>
    /\ iterRet = "none"
    /\ IdleLazy

\* one call of next() whose query raises
NextFails ==
    /\ failures < MaxFailures
    /\ Len(iterator.items) = 0
    /\ ~iterator.shouldStop
    /\ failures' = failures + 1
    /\ \E r \in {IteratorNextFails(iterator)} :
           /\ iterator' = r.it
           /\ iterRet' = r.ret.tag
           /\ requests' = r.requests
    /\ UNCHANGED <<totalCount, serverPageSize, changes, yielded, requestVars, socketVars, dispatchVars,
                   graphVars, pairVars, lazyVars>>

NextIterFail == Next_next \/ NextFails

\* one more call of next() by a caller whose last call raised
\* StopIteration; opsDone counts these calls
NextAgain ==
    /\ iterRet = "StopIteration"
    /\ opsDone < MaxOps
    /\ opsDone' = opsDone + 1
    /\ \E r \in {IteratorNext(iterator, totalCount, serverPageSize, << >>)} :
           /\ iterator' = r.it
           /\ iterRet' = r.ret.tag
           /\ yielded' = IF r.ret.tag = "item" THEN Append(yielded, r.ret.val)
                         ELSE yielded
           /\ requests' = r.requests
    /\ UNCHANGED <<backendVars, requestVars, socketVars, dispatchVars, graphVars, pairVars,
                   qr, lastOp, ret, fetches, plain, plainRet>>

NextIterAgain == Next_next \/ NextAgain

\* an iterator that is called again after it has ended
SpecIterAgain == InitIterAnyPage /\ [][NextIterAgain]_vars

\* an iterator constructed from a decorated method of a client, or a lazy
\* collection returned by calling that method
InitDecorated ==
    /\ totalCount \in {0, 1, maxQueryLimit + 1, MaxTotal}
    /\ serverPageSize = maxQueryLimit
    /\ changes = 0
    /\ failures = 0
    /\ IdleSocket
    /\ IdleGraph
    /\ IdlePair
    /\ requestedOffset \in {0, SmallOffset}
    /\ requestedLimit \in {0, SmallLimit, maxQueryLimit + 1}
    /\ \E copyable \in BOOLEAN : callerFunction = DecoratedMethod(Client(copyable))
    /\ invoked = << >>
    /\ yielded = << >>
    /\ iterRet = "none"
    /\ ret = NoRet
    /\ fetches = 0
    /\ requests = << >>
    /\ plain = << >>
    /\ plainRet = NoRet
    /\ opsDone = 0
    /\ \/ \* QueryIterator(client.GetScenes, ...), GraphQueryIterator(...)
          /\ iterator \in Iterators(requestedOffset, requestedLimit)
          /\ target = BindByKind(iterator.kind, callerFunction, << >>)
          /\ qr = QueryResult(0, maxQueryLimit, 0, 0)
          /\ lastOp = Op("none", 0)
       \/ \* client.GetScenes(...), client.graphApi.ListEnvironments(...):
          \* wrapper(self, ...) constructs the collection from queryFunction
          \* and (self,) + args
          /\ iterator = QueryIterator(0, 0)
          /\ target = Target(Function, <<callerFunction.bself>>)
          /\ qr \in {QueryResult(totalCount, serverPageSize,
                                 requestedOffset, requestedLimit),
                     LazyGraphQuery(totalCount, serverPageSize,
                                    requestedOffset, requestedLimit)}
          /\ lastOp = Op("call", 0)

\* next() of the iterator constructed from the decorated method
DecoratedNext ==
    /\ lastOp.name = "none"
    /\ ~target.failed
    /\ \E r \in {IteratorNext(iterator, totalCount, serverPageSize, << >>)} :
           /\ iterator' = r.it
           /\ iterRet' = r.ret.tag
           /\ yielded' = IF r.ret.tag = "item" THEN Append(yielded, r.ret.val)
                         ELSE yielded
           /\ requests' = r.requests
           /\ invoked' = Invocations(target, Len(r.requests))
    /\ UNCHANGED <<backendVars, requestVars, socketVars, graphVars, pairVars, lazyVars,
                   callerFunction, target>>

\* collection[index] of the collection the decorated method returned
DecoratedGetItem ==
    /\ lastOp.name # "none"
    /\ \E index \in {0, maxQueryLimit, -1} :
           \E r \in {LazyGetItem(qr, index, totalCount, serverPageSize)} :
               /\ qr' = r.qr
               /\ ret' = r.ret
               /\ fetches' = r.fetches
               /\ requests' = r.requests
               /\ lastOp' = Op("getitem", index)
               /\ invoked' = Invocations(target, Len(r.requests))
    /\ UNCHANGED <<backendVars, requestVars, socketVars, graphVars, pairVars, iterVars,
                   plain, plainRet, opsDone, callerFunction, target>>

\* collection.FetchAll(): the iterator it drains is constructed from the
\* collection's _queryFunction and positional arguments
DecoratedFetchAll ==
    /\ lastOp.name # "none"
    /\ ~qr.fetchedAll
    /\ lastOp' = Op("FetchAll", 0)
    /\ \E t \in {BindByKind(qr.kind, target.func, target.posargs)} :
           IF t.failed
           THEN /\ ret' = TypeError
                /\ invoked' = << >>
                /\ requests' = << >>
                /\ fetches' = 0
                /\ qr' = qr
           ELSE \E r \in {LazyFetchAll(qr, totalCount, serverPageSize)} :
                    /\ qr' = r.qr
                    /\ ret' = None
                    /\ fetches' = r.fetches
                    /\ requests' = r.requests
                    /\ invoked' = Invocations(t, Len(r.requests))
    /\ UNCHANGED <<backendVars, requestVars, socketVars, graphVars, pairVars, iterVars,
                   plain, plainRet, opsDone, callerFunction, target>>

NextDecorated == DecoratedNext \/ DecoratedGetItem \/ DecoratedFetchAll

SpecDecorated == InitDecorated /\ [][NextDecorated]_vars

\* ---------------------------------------- subscriptions over the websocket
\* the variables of the pagination classes, which the client leaves alone
paginationVars == <<backendVars, requestVars, iterVars, lazyVars, requests,
                    graphVars, pairVars, dispatchVars>>

\* a ControllerWebClientRaw after __init__
InitSocket ==
    /\ totalCount = 0
    /\ serverPageSize = maxQueryLimit
    /\ changes = 0
    /\ failures = 0
    /\ IdleSocket
    /\ IdleDispatch
    /\ IdleGraph
    /\ IdlePair
    /\ requestedOffset = 0
    /\ requestedLimit = 0
    /\ IdleLazy
    /\ IdleIter

\* the attributes and the server's view become those of r
SetSockets(r) ==
    /\ webSocket' = r.webSocket
    /\ subscriptions' = r.subscriptions
    /\ connections' = r.connections
    /\ started' = r.started

\* the event-loop thread is executing the listener's synchronous code, or is
\* blocked in it: no other coroutine of the loop runs
LoopBusy ==
    LoopBlocked \/ \E c \in Connections : listeners[c] = "delivering"

\* SubscribeGraphAPI is called: a Subscription with a fresh id is created
BeginSubscribe ==
    /\ apiCall = NoCall
    /\ isok
    /\ lastId < MaxSubscriptions
    /\ lastId' = lastId + 1
    /\ apiCall' = ApiCall("Subscribe", lastId + 1, "acquire", {}, NoSocket)
    /\ UNCHANGED <<paginationVars, webSocket, subscriptions, connections, started,
                   subscriptionLock, coroutine, listeners, isok>>

\* UnsubscribeGraphAPI is called with a Subscription created earlier
BeginUnsubscribe ==
    /\ apiCall = NoCall
    /\ isok
    /\ \E id \in 1..lastId :
           apiCall' = ApiCall("Unsubscribe", id, "acquire", {}, NoSocket)
    /\ UNCHANGED <<paginationVars, webSocket, subscriptions, connections, started,
                   subscriptionLock, coroutine, listeners, isok, lastId>>

\* Destroy is called: SetDestroy, and with a background thread the
\* subscriptions are stopped under the lock
BeginDestroy ==
    /\ apiCall = NoCall
    /\ isok
    /\ isok' = FALSE
    /\ apiCall' = IF \E c \in Connections : connections[c] # "unused"
                  THEN ApiCall("Destroy", 0, "acquire", {}, NoSocket)
                  ELSE NoCall
    /\ UNCHANGED <<paginationVars, webSocket, subscriptions, connections, started,
                   subscriptionLock, coroutine, listeners, lastId>>

\* "with self._subscriptionLock" in the caller thread
Acquire ==
    /\ apiCall.step = "acquire"
    /\ subscriptionLock = "free"
    /\ subscriptionLock' = "caller"
    /\ apiCall' = [apiCall EXCEPT !.step = "locked",
                                  !.seenSubs = subscriptions,
                                  !.seenSocket = webSocket]
    /\ UNCHANGED <<paginationVars, webSocket, subscriptions, connections, started,
                   coroutine, listeners, isok, lastId>>

\* SubscribeGraphAPI under the lock, _EnsureWebSocketConnection: without a
\* websocket the connection is opened first, else _Subscribe is scheduled;
\* either way the thread blocks on the result
EnsureWebSocketConnection ==
    /\ apiCall.entry = "Subscribe"
    /\ apiCall.step = "locked"
    /\ IF webSocket = NoSocket
       THEN /\ coroutine' = Coroutine("open", "scheduled", FALSE)
            /\ apiCall' = [apiCall EXCEPT !.step = "waitOpen"]
       ELSE /\ coroutine' = Coroutine("subscribe", "scheduled", FALSE)
            /\ apiCall' = [apiCall EXCEPT !.step = "waitResult"]
    /\ UNCHANGED <<paginationVars, webSocket, subscriptions, connections, started,
                   subscriptionLock, listeners, isok, lastId>>

\* _EnsureWebSocketConnection after _OpenWebSocketConnection returned: its
\* exception leaves SubscribeGraphAPI; else the listener is started and
\* _Subscribe is scheduled
StartListening ==
    /\ apiCall.step = "waitOpen"
    /\ coroutine.stage = "done"
    /\ IF coroutine.threw
       THEN /\ apiCall' = NoCall
            /\ subscriptionLock' = "free"
            /\ coroutine' = NoCoroutine
            /\ listeners' = listeners
       ELSE /\ apiCall' = [apiCall EXCEPT !.step = "waitResult"]
            /\ subscriptionLock' = subscriptionLock
            /\ coroutine' = Coroutine("subscribe", "scheduled", FALSE)
            /\ listeners' = [listeners EXCEPT ![webSocket] = "listening"]
    /\ UNCHANGED <<paginationVars, webSocket, subscriptions, connections, started,
                   isok, lastId>>

\* UnsubscribeGraphAPI under the lock: nothing to do without a websocket or
\* for a subscription that is not in the table, else _Unsubscribe is
\* scheduled and the thread blocks on its result
UnsubscribeChecks ==
    /\ apiCall.entry = "Unsubscribe"
    /\ apiCall.step = "locked"
    /\ IF webSocket = NoSocket \/ apiCall.subject \notin subscriptions
       THEN /\ apiCall' = NoCall
            /\ subscriptionLock' = "free"
            /\ coroutine' = coroutine
       ELSE /\ apiCall' = [apiCall EXCEPT !.step = "waitResult"]
            /\ subscriptionLock' = subscriptionLock
            /\ coroutine' = Coroutine("unsubscribe", "scheduled", FALSE)
    /\ UNCHANGED <<paginationVars, webSocket, subscriptions, connections, started,
                   listeners, isok, lastId>>

\* Destroy under the lock: _StopAllSubscriptions is scheduled and the thread
\* blocks on its result
DestroyStops ==
    /\ apiCall.entry = "Destroy"
    /\ apiCall.step = "locked"
    /\ apiCall' = [apiCall EXCEPT !.step = "waitResult"]
    /\ coroutine' = Coroutine("stopall", "scheduled", FALSE)
    /\ UNCHANGED <<paginationVars, webSocket, subscriptions, connections, started,
                   subscriptionLock, listeners, isok, lastId>>

\* .result() returns and the call leaves its "with" block: SubscribeGraphAPI
\* registers the subscription, Destroy destroys the background thread
Return ==
    /\ apiCall.step = "waitResult"
    /\ coroutine.stage = "done"
    /\ subscriptions' = IF apiCall.entry = "Subscribe"
                        THEN Register(subscriptions, apiCall.subject, coroutine.threw)
                        ELSE subscriptions
    /\ listeners' = IF apiCall.entry = "Destroy"
                    THEN [c \in Connections |-> "none"]
                    ELSE listeners
    /\ subscriptionLock' = "free"
    /\ apiCall' = NoCall
    /\ coroutine' = NoCoroutine
    /\ UNCHANGED <<paginationVars, webSocket, connections, started, isok, lastId>>

\* _OpenWebSocketConnection on the event loop: the connection is made and
\* _webSocket set, or connecting raises
OpenConnection ==
    /\ ~LoopBusy
    /\ coroutine = Coroutine("open", "scheduled", FALSE)
    /\ \E outcome \in {"open", "refused"} :
           LET unused == {c \in Connections : connections[c] = "unused"}
               new == CHOOSE c \in unused : \A d \in unused : c <= d
           IN  IF unused = {}
               THEN /\ coroutine' = Coroutine("open", "done", TRUE)
                    /\ UNCHANGED <<webSocket, connections>>
               ELSE /\ coroutine' = Coroutine("open", "done", outcome = "refused")
                    /\ connections' = [connections EXCEPT ![new] = outcome]
                    /\ webSocket' = IF outcome = "open" THEN new ELSE webSocket
    /\ UNCHANGED <<paginationVars, subscriptions, started, subscriptionLock,
                   apiCall, listeners, isok, lastId>>

\* _Subscribe on the event loop: the 'start' message is sent, or sending
\* raises and _StopAllSubscriptions begins with closing the websocket
SendStart ==
    /\ ~LoopBusy
    /\ coroutine = Coroutine("subscribe", "scheduled", FALSE)
    /\ IF webSocket # NoSocket /\ connections[webSocket] = "open"
       THEN /\ started' = started \cup {<<apiCall.subject, webSocket>>}
            /\ coroutine' = Coroutine("subscribe", "done", FALSE)
       ELSE /\ started' = started
            /\ coroutine' = Coroutine("subscribe", "stopping", TRUE)
    /\ UNCHANGED <<paginationVars, webSocket, subscriptions, connections,
                   subscriptionLock, apiCall, listeners, isok, lastId>>

\* _Unsubscribe on the event loop: the 'stop' message is sent and the
\* subscription removed, then the websocket is closed if none is left; or
\* sending raises and _StopAllSubscriptions begins
SendStop ==
    /\ ~LoopBusy
    /\ coroutine = Coroutine("unsubscribe", "scheduled", FALSE)
    /\ IF connections[webSocket] = "open"
       THEN /\ subscriptions' = subscriptions \ {apiCall.subject}
            /\ started' = started \ {<<apiCall.subject, webSocket>>}
            /\ coroutine' = Coroutine("unsubscribe",
                                      IF NoneLeft(subscriptions \ {apiCall.subject})
                                      THEN "closing" ELSE "done",
                                      FALSE)
       ELSE /\ UNCHANGED <<subscriptions, started>>
            /\ coroutine' = Coroutine("unsubscribe", "stopping", TRUE)
    /\ UNCHANGED <<paginationVars, webSocket, connections, subscriptionLock,
                   apiCall, listeners, isok, lastId>>

\* _StopAllSubscriptions scheduled by Destroy begins
StartStopAll ==
    /\ ~LoopBusy
    /\ coroutine = Coroutine("stopall", "scheduled", FALSE)
    /\ coroutine' = Coroutine("stopall", "stopping", FALSE)
    /\ UNCHANGED <<paginationVars, webSocket, subscriptions, connections, started,
                   subscriptionLock, apiCall, listeners, isok, lastId>>

\* "await self._CloseWebSocket()" of _Unsubscribe returns
FinishClose ==
    /\ ~LoopBusy
    /\ coroutine.stage = "closing"
    /\ SetSockets(CloseWebSocket(webSocket, subscriptions, connections, started))
    /\ coroutine' = [coroutine EXCEPT !.stage = "done"]
    /\ UNCHANGED <<paginationVars, subscriptionLock, apiCall, listeners, isok, lastId>>

\* _StopAllSubscriptions of a coroutine runs to its end
FinishStopAll ==
    /\ ~LoopBusy
    /\ coroutine.stage = "stopping"
    /\ SetSockets(StopAllSubscriptions(webSocket, subscriptions, connections, started))
    /\ coroutine' = [coroutine EXCEPT !.stage = "done"]
    /\ UNCHANGED <<paginationVars, subscriptionLock, apiCall, listeners, isok, lastId>>

\* the network: a connection breaks; sending on it raises from now on and
\* its listener's "async for" raises
ConnectionBreaks ==
    /\ \E c \in Connections :
           /\ connections[c] = "open"
           /\ connections' = [connections EXCEPT ![c] = "broken"]
    /\ UNCHANGED <<paginationVars, webSocket, subscriptions, started,
                   subscriptionLock, apiCall, coroutine, listeners, isok, lastId>>

\* _ListenToWebSocket: a message of a started subscription arrives; the
\* listener leaves its loop when _isok is False, else it goes on to
\* "with self._subscriptionLock", a blocking acquire on the event-loop thread
MessageArrives ==
    /\ ~LoopBusy
    /\ \E c \in Connections :
           /\ listeners[c] = "listening"
           /\ connections[c] = "open"
           /\ \E p \in started : p[2] = c
           /\ listeners' = [listeners EXCEPT
                               ![c] = IF isok THEN "acquiring" ELSE "none"]
    /\ UNCHANGED <<paginationVars, webSocket, subscriptions, connections, started,
                   subscriptionLock, apiCall, coroutine, isok, lastId>>

\* the listener gets the lock
ListenerAcquires ==
    /\ subscriptionLock = "free"
    /\ \E c \in Connections :
           /\ listeners[c] = "acquiring"
           /\ listeners' = [listeners EXCEPT ![c] = "delivering"]
    /\ subscriptionLock' = "listener"
    /\ UNCHANGED <<paginationVars, webSocket, subscriptions, connections, started,
                   apiCall, coroutine, isok, lastId>>

\* the listener calls the subscription's callback, if the subscription is
\* in the table, and leaves the "with" block
ListenerDelivers ==
    /\ \E c \in Connections :
           /\ listeners[c] = "delivering"
           /\ listeners' = [listeners EXCEPT ![c] = "listening"]
    /\ subscriptionLock' = "free"
    /\ UNCHANGED <<paginationVars, webSocket, subscriptions, connections, started,
                   apiCall, coroutine, isok, lastId>>

\* _ListenToWebSocket, "except Exception": the connection broke; the
\* listener goes on to "with self._subscriptionLock"
ListenerFails ==
    /\ ~LoopBusy
    /\ \E c \in Connections :
           /\ listeners[c] = "listening"
           /\ connections[c] = "broken"
           /\ listeners' = [listeners EXCEPT ![c] = "failAcquiring"]
    /\ UNCHANGED <<paginationVars, webSocket, subscriptions, connections, started,
                   subscriptionLock, apiCall, coroutine, isok, lastId>>

\* the failed listener gets the lock and awaits _StopAllSubscriptions, which
\* awaits close() with the lock held; without a websocket there is nothing
\* to await and the table is cleared at once
ListenerFailAcquires ==
    /\ subscriptionLock = "free"
    /\ \E c \in Connections :
           /\ listeners[c] = "failAcquiring"
           /\ IF webSocket = NoSocket
              THEN /\ listeners' = [listeners EXCEPT ![c] = "none"]
                   /\ subscriptions' = {}
                   /\ subscriptionLock' = subscriptionLock
              ELSE /\ listeners' = [listeners EXCEPT ![c] = "failClosing"]
                   /\ subscriptions' = subscriptions
                   /\ subscriptionLock' = "listener"
    /\ UNCHANGED <<paginationVars, webSocket, connections, started,
                   apiCall, coroutine, isok, lastId>>

\* _StopAllSubscriptions of the failed listener runs to its end and the
\* listener leaves the "with" block
ListenerStopsAll ==
    /\ ~LoopBusy
    /\ \E c \in Connections :
           /\ listeners[c] = "failClosing"
           /\ listeners' = [listeners EXCEPT ![c] = "none"]
    /\ SetSockets(StopAllSubscriptions(webSocket, subscriptions, connections, started))
    /\ subscriptionLock' = "free"
    /\ UNCHANGED <<paginationVars, apiCall, coroutine, isok, lastId>>

\* _ListenToWebSocket: the connection was closed by close(), "async for" ends
ListenerEnds ==
    /\ ~LoopBusy
    /\ \E c \in Connections :
           /\ listeners[c] = "listening"
           /\ connections[c] = "closed"
           /\ listeners' = [listeners EXCEPT ![c] = "none"]
    /\ UNCHANGED <<paginationVars, webSocket, subscriptions, connections, started,
                   subscriptionLock, apiCall, coroutine, isok, lastId>>

NextSocket ==
    \/ BeginSubscribe \/ BeginUnsubscribe \/ BeginDestroy \/ Acquire
    \/ EnsureWebSocketConnection \/ StartListening \/ UnsubscribeChecks
    \/ DestroyStops \/ Return
    \/ OpenConnection \/ SendStart \/ SendStop \/ StartStopAll
    \/ FinishClose \/ FinishStopAll
    \/ ConnectionBreaks \/ MessageArrives \/ ListenerAcquires \/ ListenerDelivers
    \/ ListenerFails \/ ListenerFailAcquires \/ ListenerStopsAll \/ ListenerEnds

SpecSocket == InitSocket /\ [][NextSocket]_vars

SpecIterFail == InitIterFail /\ [][NextIterFail]_vars

\* the caller calls next() again and again
SpecIterLive == InitIterLive /\ [][NextIterLive]_vars /\ WF_vars(Next_next)

SpecIter == InitIter /\ [][NextIter]_vars
SpecIterAnyPage == InitIterAnyPage /\ [][NextIter]_vars

\* a lazy collection constructed over a backend that serves every page in full
InitLazy ==
    /\ totalCount \in TotalCounts
    /\ serverPageSize = maxQueryLimit
    /\ changes = 0
    /\ failures = 0
    /\ IdleSocket
    /\ IdleDispatch
    /\ IdleGraph
    /\ IdlePair
    /\ requestedOffset \in Offsets
    /\ requestedLimit \in Limits
    /\ qr = QueryResult(totalCount, serverPageSize, requestedOffset, requestedLimit)
    /\ lastOp = Op("init", 0)
    /\ ret = NoRet
    /\ fetches = 1
    /\ requests = <<qr.kwargs>>   \* the query of _APICall
    /\ plain = PlainRange(totalCount, requestedOffset, requestedLimit)
    /\ plainRet = NoRet
    /\ opsDone = 0
    /\ IdleIter

\* the indices read: around both ends of the collection of length n, beyond
\* them on either side, and around the page boundaries
ReadIndexes(n) ==
    UNION {{k, n - 1 - k, n + k, -1 - k, k - n, -n - 1 - k, -(2 * n) - 1 - k,
            maxQueryLimit - k, -maxQueryLimit - k} : k \in 0..Near}

\* len(scenes)
LenOp ==
    /\ lastOp' = Op("len", 0)
    /\ ret' = Ret("len", LazyLen(qr), << >>)
    /\ plainRet' = Ret("len", Len(plain), << >>)
    /\ fetches' = 0
    /\ requests' = << >>
    /\ UNCHANGED <<qr, plain, opsDone, backendVars, requestVars, socketVars, dispatchVars, graphVars, pairVars, iterVars>>

\* scenes[index]
GetItem ==
    \E index \in ReadIndexes(QueryResultLen(qr)) :
        \E r \in {QueryResultGetItem(qr, index, totalCount, serverPageSize, << >>)} :
            /\ lastOp' = Op("getitem", index)
            /\ qr' = r.qr
            /\ ret' = r.ret
            /\ fetches' = r.fetches
            /\ requests' = r.requests
            /\ plainRet' = ListGetItem(plain, index)
            /\ UNCHANGED <<plain, opsDone, backendVars, requestVars, socketVars, dispatchVars, graphVars, pairVars, iterVars>>

NextLazy == LenOp \/ GetItem

SpecLazy == InitLazy /\ [][NextLazy]_vars

\* a freshly constructed lazy collection whose indices are read in
\* increasing order
InitSeqRead ==
    /\ totalCount \in {1, maxQueryLimit, maxQueryLimit + 1, MaxTotal - 1, MaxTotal}
    /\ serverPageSize \in PageSizes
    /\ changes = 0
    /\ failures = 0
    /\ IdleSocket
    /\ IdleDispatch
    /\ IdleGraph
    /\ IdlePair
    /\ requestedOffset \in {0, SmallOffset}
    /\ requestedLimit \in {0, SmallLimit, maxQueryLimit + 1}
    /\ qr = QueryResult(totalCount, serverPageSize, requestedOffset, requestedLimit)
    /\ lastOp = Op("init", 0)
    /\ ret = NoRet
    /\ fetches = 1
    /\ requests = <<qr.kwargs>>
    /\ plain = PlainRange(totalCount, requestedOffset, requestedLimit)
    /\ plainRet = NoRet
    /\ opsDone = 0
    /\ IdleIter

\* scenes[opsDone], the next index in increasing order; in this
\* specification fetches counts the page fetches since construction, the
\* construction fetch included
ReadNextIndex ==
    /\ opsDone < QueryResultLen(qr)
    /\ \E r \in {QueryResultGetItem(qr, opsDone, totalCount, serverPageSize, << >>)} :
           /\ lastOp' = Op("getitem", opsDone)
           /\ qr' = r.qr
           /\ ret' = r.ret
           /\ fetches' = fetches + r.fetches
           /\ requests' = r.requests
    /\ plainRet' = ListGetItem(plain, opsDone)
    /\ opsDone' = opsDone + 1
    /\ UNCHANGED <<plain, backendVars, requestVars, socketVars, dispatchVars, graphVars,
                   pairVars, iterVars>>

NextSeqRead == ReadNextIndex

SpecSeqRead == InitSeqRead /\ [][NextSeqRead]_vars

\* a lazy collection that is read and then iterated
InitLazyIter ==
    /\ totalCount \in {0, 1, maxQueryLimit + 1, MaxTotal}
    /\ serverPageSize = maxQueryLimit
    /\ changes = 0
    /\ failures = 0
    /\ IdleSocket
    /\ IdleDispatch
    /\ IdleGraph
    /\ IdlePair
    /\ requestedOffset \in {0, SmallOffset}
    /\ requestedLimit \in {0, SmallLimit, maxQueryLimit + 1}
    /\ qr \in {QueryResult(totalCount, serverPageSize,
                           requestedOffset, requestedLimit),
               LazyGraphQuery(totalCount, serverPageSize,
                              requestedOffset, requestedLimit)}
    /\ lastOp = Op("init", 0)
    /\ ret = NoRet
    /\ fetches = 1
    /\ requests = <<qr.kwargs>>
    /\ plain = PlainRange(totalCount, requestedOffset, requestedLimit)
    /\ plainRet = NoRet
    /\ opsDone = 0
    /\ IdleIter

\* collection[index], before the collection is iterated
ReadBeforeIter ==
    /\ lastOp.name # "iter"
    /\ \E index \in {0, 1, maxQueryLimit, -1, -maxQueryLimit - 1} :
           \E r \in {LazyGetItem(qr, index, totalCount, serverPageSize)} :
               /\ lastOp' = Op("getitem", index)
               /\ qr' = r.qr
               /\ ret' = r.ret
               /\ fetches' = r.fetches
               /\ requests' = r.requests
               /\ plainRet' = ListGetItem(plain, index)
    /\ UNCHANGED <<plain, opsDone, backendVars, requestVars, socketVars, dispatchVars,
                   graphVars, pairVars, iterVars>>

\* iter(collection)
IterOp ==
    /\ lastOp.name # "iter"
    /\ ~qr.fetchedAll
    /\ lastOp' = Op("iter", 0)
    /\ \E r \in {LazyIter(qr)} :
           /\ qr' = r.qr
           /\ iterator' = r.it
    /\ yielded' = << >>
    /\ iterRet' = "none"
    /\ ret' = NoRet
    /\ fetches' = 0
    /\ requests' = << >>
    /\ UNCHANGED <<plain, plainRet, opsDone, backendVars, requestVars, socketVars,
                   dispatchVars, graphVars, pairVars>>

\* next() of the iterator that iter(collection) returned
NextOfIter ==
    /\ lastOp.name = "iter"
    /\ Next_next

NextLazyIter == ReadBeforeIter \/ IterOp \/ NextOfIter

SpecLazyIter == InitLazyIter /\ [][NextLazyIter]_vars

\* the backend's collection changes size between two operations
BackendChange ==
    /\ changes < MaxChanges
    /\ changes' = changes + 1
    /\ totalCount' \in {0, maxQueryLimit + 1, MaxTotal} \ {totalCount}
    /\ lastOp' = Op("backend", 0)
    /\ fetches' = 0
    /\ requests' = << >>
    /\ UNCHANGED <<serverPageSize, failures, qr, ret, plain, plainRet, opsDone, requestVars, socketVars, dispatchVars, graphVars, pairVars, iterVars>>

\* a lazy collection over a backend whose collection changes
InitLazyDyn ==
    /\ totalCount \in TotalCounts
    /\ serverPageSize = maxQueryLimit
    /\ changes = 0
    /\ failures = 0
    /\ IdleSocket
    /\ IdleDispatch
    /\ IdleGraph
    /\ IdlePair
    /\ requestedOffset \in {0, SmallOffset}
    /\ requestedLimit \in {0, maxQueryLimit + 1}
    /\ qr = QueryResult(totalCount, serverPageSize, requestedOffset, requestedLimit)
    /\ lastOp = Op("init", 0)
    /\ ret = NoRet
    /\ fetches = 1
    /\ requests = <<qr.kwargs>>   \* the query of _APICall
    /\ plain = PlainRange(totalCount, requestedOffset, requestedLimit)
    /\ plainRet = NoRet
    /\ opsDone = 0
    /\ IdleIter

NextLazyDyn == LenOp \/ GetItem \/ BackendChange

SpecLazyDyn == InitLazyDyn /\ [][NextLazyDyn]_vars

\* a lazy collection that the caller reads, fetches in full and changes
InitList ==
    /\ totalCount \in {0, maxQueryLimit + 1, MaxTotal}
    /\ serverPageSize = maxQueryLimit
    /\ changes = 0
    /\ failures = 0
    /\ IdleSocket
    /\ IdleDispatch
    /\ IdleGraph
    /\ IdlePair
    /\ requestedOffset \in {0, SmallOffset}
    /\ requestedLimit \in {0, SmallLimit, maxQueryLimit + 1}
    /\ qr \in {QueryResult(totalCount, serverPageSize, requestedOffset, requestedLimit),
               LazyGraphQuery(totalCount, serverPageSize, requestedOffset, requestedLimit)}
    /\ lastOp = Op("init", 0)
    /\ ret = NoRet
    /\ fetches = 1
    /\ requests = <<qr.kwargs>>   \* the query of _APICall
    /\ plain = PlainRange(totalCount, requestedOffset, requestedLimit)
    /\ plainRet = NoRet
    /\ opsDone = 0
    /\ IdleIter

\* scenes[index], before or after the collection is materialized
GetItemOfList ==
    \E index \in {-1, maxQueryLimit} :
        \E r \in {LazyGetItem(qr, index, totalCount, serverPageSize)} :
            /\ lastOp' = Op("getitem", index)
            /\ qr' = r.qr
            /\ ret' = r.ret
            /\ fetches' = r.fetches
            /\ requests' = r.requests
            /\ plainRet' = ListGetItem(plain, index)
            /\ UNCHANGED <<plain, opsDone, backendVars, requestVars, socketVars, dispatchVars, graphVars, pairVars, iterVars>>

\* scenes.FetchAll()
FetchAllOp ==
    \E f \in {LazyFetchAll(qr, totalCount, serverPageSize)} :
        /\ lastOp' = Op("FetchAll", 0)
        /\ qr' = f.qr
        /\ ret' = None
        /\ fetches' = f.fetches
        /\ requests' = f.requests
        /\ plainRet' = None
        /\ UNCHANGED <<plain, opsDone, backendVars, requestVars, socketVars, dispatchVars, graphVars, pairVars, iterVars>>

\* one materializing method applied to scenes, and the list's method of the
\* same name applied to the plain list
Apply(op) ==
    /\ qr.kind = "rest"   \* the list methods modelled are QueryResult's
    /\ opsDone < MaxOps
    /\ \E r \in {Materializing(qr, totalCount, serverPageSize, op)} :
           /\ qr' = r.qr
           /\ ret' = r.ret
           /\ fetches' = r.fetches
           /\ requests' = r.requests
    /\ \E p \in {ListApply(plain, op)} :
           /\ plain' = p.list
           /\ plainRet' = p.ret
    /\ opsDone' = opsDone + 1
    /\ lastOp' = op
    /\ UNCHANGED <<backendVars, requestVars, socketVars, dispatchVars, graphVars, pairVars, iterVars>>

\* arguments of the methods
Indexes == {0, -1, maxQueryLimit}
Needles == {TestItem, requestedOffset, requestedOffset + maxQueryLimit}
Others ==
    {[isQueryResult |-> FALSE, offset |-> 0, limit |-> 0, list |-> l] :
        l \in {PlainRange(totalCount, requestedOffset, requestedLimit), <<TestItem>>}}
    \cup {[isQueryResult |-> TRUE, offset |-> requestedOffset,
           limit |-> requestedLimit, list |-> << >>]}

SetItem  == \E i \in Indexes : Apply(OpFull("setitem", i, TestItem, << >>))
SetSlice == Apply(OpFull("setslice", maxQueryLimit - Near, maxQueryLimit + Near, <<TestItem>>))
DelItem  == \E i \in Indexes : Apply(Op("delitem", i))
DelSlice == Apply(OpFull("delslice", maxQueryLimit - Near, maxQueryLimit + Near, << >>))
AppendOp == Apply(Op("append", TestItem))
Extend   == Apply(OpFull("extend", 0, 0, <<TestItem>>))
Insert   == \E i \in Indexes : Apply(OpFull("insert", i, TestItem, << >>))
IndexOp  == \E x \in Needles : Apply(Op("index", x))
Pop      == Apply(Op("pop", 0))
Count    == \E x \in Needles : Apply(Op("count", x))
Remove   == \E x \in Needles : Apply(Op("remove", x))
Reverse  == Apply(Op("reverse", 0))
Sort     == \E reverse \in {0, 1} : Apply(Op("sort", reverse))
IAdd     == Apply(OpFull("iadd", 0, 0, <<TestItem>>))
Add      == Apply(OpFull("add", 0, 0, <<TestItem>>))
RMul     == Apply(Op("rmul", 2))
Mul      == Apply(Op("mul", 2))
IMul     == \E k \in {0, 2} : Apply(Op("imul", k))
Reversed == Apply(Op("reversed", 0))
Contains == \E x \in Needles : Apply(Op("contains", x))
Compare  ==
    \E name \in {"eq", "ne", "lt", "gt", "le", "ge"}, other \in Others :
        Apply(OpFull(name, 0, 0, OtherList(other, totalCount, serverPageSize)))

NextList ==
    \/ LenOp \/ GetItemOfList \/ FetchAllOp
    \/ SetItem \/ SetSlice \/ DelItem \/ DelSlice \/ AppendOp \/ Extend \/ Insert
    \/ IndexOp \/ Pop \/ Count \/ Remove \/ Reverse \/ Sort \/ IAdd \/ Add
    \/ RMul \/ Mul \/ IMul \/ Reversed \/ Contains \/ Compare

SpecList == InitList /\ [][NextList]_vars

\* scenes[start:stop] with 0 <= start <= stop <= len(scenes)
GetSlice ==
    \E start \in {0, maxQueryLimit} :
        \E stop \in {start, start + SmallLimit, QueryResultLen(qr)} :
            \E r \in QueryResultGetSlice(qr, start, stop) :
                /\ start <= stop
                /\ stop <= QueryResultLen(qr)
                /\ lastOp' = OpFull("getslice", start, stop, << >>)
                /\ ret' = r
                /\ fetches' = 0
                /\ requests' = << >>
                /\ plainRet' = ListRet(ListGetSlice(plain, start, stop))
                /\ UNCHANGED <<qr, plain, opsDone, backendVars, requestVars, socketVars, dispatchVars, graphVars, pairVars, iterVars>>

NextSlice == GetSlice

\* a freshly constructed lazy collection that the caller slices
SpecSlice == InitLazy /\ [][NextSlice]_vars

\* the backend and the options a decorated graph method is called with
InitGraphCall ==
    /\ totalCount \in {0, 1, MaxTotal}
    /\ serverPageSize = maxQueryLimit
    /\ changes = 0
    /\ failures = 0
    /\ IdleSocket
    /\ IdleDispatch
    /\ IdleGraph
    /\ IdlePair
    /\ requestedOffset \in {0, SmallOffset}
    /\ requestedLimit \in {0, SmallLimit}
    /\ IdleLazy
    /\ IdleIter

\* graphApi.ListEnvironments(fields=..., options={'offset': o, 'first': L})
ListEnvironments ==
    \E form \in {"omitted", "dict", "list"} :
        \E names \in SUBSET FieldNames :
            \E metaFields \in MetaSelections :
                /\ form = "omitted" => names = {}
                /\ form = "dict" => ("meta" \in names <=> metaFields # "absent")
                /\ form # "dict" => metaFields = "absent"
                /\ callerFields' = CallerFields(form, names, metaFields)
                /\ returned' = UseLazyGraphQuery(callerFields', totalCount, serverPageSize,
                                                 requestedOffset, requestedLimit)
                /\ UNCHANGED <<backendVars, requestVars, socketVars, dispatchVars, pairVars, lazyVars, requests, iterVars>>

NextGraphCall == ListEnvironments

SpecGraphCall == InitGraphCall /\ [][NextGraphCall]_vars

\* the instances a caller can construct for one offset and limit
Instances(total, pageSize, offset, limit) ==
    {NewQueryIterator(offset, limit), NewQueryResult(total, pageSize, offset, limit)}
        \cup {NewGraphQueryIterator(offset, limit, s) : s \in BOOLEAN}

\* two instances constructed over one backend
InitPair ==
    /\ totalCount \in {0, SmallLimit + 1, MaxTotal}
    /\ serverPageSize = maxQueryLimit
    /\ changes = 0
    /\ failures = 0
    /\ IdleSocket
    /\ IdleDispatch
    /\ IdleGraph
    /\ requestedOffset = 0
    /\ requestedLimit = 0
    /\ \E o1 \in {0, SmallOffset}, o2 \in {0, SmallOffset} :
           \E l1 \in {0, SmallLimit}, l2 \in {0, SmallLimit} :
               \E first \in Instances(totalCount, serverPageSize, o1, l1) :
                   \E second \in Instances(totalCount, serverPageSize, o2, l2) :
                       instances = <<first, second>>
    /\ classAttrs = GraphQueryIteratorClass
    /\ constructed = instances
    /\ calls = <<(<< >>), (<< >>)>>
    /\ results = <<(<< >>), (<< >>)>>
    /\ IdleLazy
    /\ IdleIter

\* the arguments of the operation applied: an index for a collection
OpArgs(inst) == IF inst.type = "collection" THEN {-1, maxQueryLimit} ELSE {0}

\* one operation on instance i
InstanceOp(i) ==
    /\ Len(calls[i]) < MaxNext
    /\ \E arg \in OpArgs(instances[i]) :
           \E r \in {InstanceStep(instances[i], classAttrs, arg, totalCount, serverPageSize)} :
               /\ instances' = [instances EXCEPT ![i] = r.inst]
               /\ classAttrs' = r.cls
               /\ calls' = [calls EXCEPT ![i] = Append(@, arg)]
               /\ results' = [results EXCEPT ![i] = Append(@, r.out)]
    /\ UNCHANGED <<constructed, backendVars, requestVars, socketVars, dispatchVars, graphVars, lazyVars,
                   requests, iterVars>>

OpOnFirst == InstanceOp(1)
OpOnSecond == InstanceOp(2)

NextPair == OpOnFirst \/ OpOnSecond

SpecPair == InitPair /\ [][NextPair]_vars

\* a lazy collection over a backend whose queries can fail
InitFail ==
    /\ totalCount \in {0, maxQueryLimit + 1, MaxTotal}
    /\ serverPageSize = maxQueryLimit
    /\ changes = 0
    /\ failures = 0
    /\ IdleSocket
    /\ IdleDispatch
    /\ IdleGraph
    /\ IdlePair
    /\ requestedOffset \in {0, SmallOffset}
    /\ requestedLimit \in {0, SmallLimit, maxQueryLimit + 1}
    /\ qr = QueryResult(totalCount, serverPageSize, requestedOffset, requestedLimit)
    /\ lastOp = Op("init", 0)
    /\ ret = NoRet
    /\ fetches = 1
    /\ requests = <<qr.kwargs>>   \* the query of _APICall
    /\ plain = PlainRange(totalCount, requestedOffset, requestedLimit)
    /\ plainRet = NoRet
    /\ opsDone = 0
    /\ IdleIter

\* scenes[index] misses the cached page and the query raises
GetItemFails ==
    \E index \in {-1, maxQueryLimit} :
        \E r \in {QueryResultGetItem(qr, index, totalCount, serverPageSize, << >>)} :
            /\ failures < MaxFailures
            /\ r.fetches > 0
            /\ failures' = failures + 1
            /\ lastOp' = Op("getitem fails", index)
            /\ qr' = APICallFails(qr, r.requests[1].offset)
            /\ ret' = FetchError
            /\ fetches' = 1
            /\ requests' = <<r.requests[1]>>
            /\ plainRet' = ListGetItem(plain, index)
            /\ UNCHANGED <<totalCount, serverPageSize, changes, plain, opsDone,
                           requestVars, socketVars, dispatchVars, graphVars, pairVars, iterVars>>

\* the k-th query of FetchAll raises; FetchAll is called by the caller or by
\* a materializing method (scenes.append(testItem))
FetchAllRaises(name) ==
    \E k \in 1..FetchAll(qr, totalCount, serverPageSize).fetches :
        \E f \in {FetchAllFails(qr, totalCount, serverPageSize, k)} :
            /\ failures < MaxFailures
            /\ ~qr.fetchedAll
            /\ failures' = failures + 1
            /\ lastOp' = Op(name, k)
            /\ qr' = f.qr
            /\ ret' = f.ret
            /\ fetches' = f.fetches
            /\ requests' = f.requests
            /\ plainRet' = None
            /\ UNCHANGED <<totalCount, serverPageSize, changes, plain, opsDone,
                           requestVars, socketVars, dispatchVars, graphVars, pairVars, iterVars>>

FetchAllFailsOp == FetchAllRaises("FetchAll fails")
AppendFails == FetchAllRaises("append fails")

NextFail ==
    \/ LenOp \/ GetItemOfList \/ GetItemFails
    \/ FetchAllOp \/ FetchAllFailsOp \/ AppendOp \/ AppendFails

SpecFail == InitFail /\ [][NextFail]_vars

\* ------------------------------------------------------------- claims
\* the latest operation was an indexed read on the un-materialized collection
LazyRead == lastOp.name = "getitem" /\ ~qr.fetchedAll

\* C1: over a fixed backend, every in-range indexed read of the
\* un-materialized QueryResult(o, L), after any earlier reads (hits and
\* misses), returns the item at that position of the materialized sequence
\* of the range, which for i >= 0 is the backend item o + i.
C1_LazyReadIsItemOfRange ==
    (LazyRead /\ lastOp.arg >= -QueryResultLen(qr) /\ lastOp.arg < QueryResultLen(qr))
        => /\ ret.tag = "item"
           /\ ret = plainRet
           /\ lastOp.arg >= 0 => ret.val = requestedOffset + lastOp.arg

\* a cache miss: the read fetched the page anchored at the item's offset,
\* beyond the first page of a collection that starts after the backend's
\* first item
C1_Witness ==
    /\ LazyRead
    /\ fetches = 1
    /\ lastOp.arg >= maxQueryLimit
    /\ lastOp.arg < QueryResultLen(qr)
    /\ requestedOffset > 0
    /\ ret = Item(requestedOffset + lastOp.arg)

\* the yielded items are the backend items o, o + 1, ... in this order
YieldedInOrder ==
    \A j \in 1..Len(yielded) : yielded[j] = requestedOffset + j - 1

C3_Original_ExactlyMinWhateverPageSize ==
    (requestedLimit > 0 /\ requestedOffset <= totalCount /\ iterator.selected
        /\ iterRet = "StopIteration")
        => Len(yielded) = Min(requestedLimit, totalCount - requestedOffset)

\* C3 amended: with limit L > 0 and offset o <= T the iterator never yields
\* more than L items; drained, it has yielded exactly min(L, T - o) items
\* when the server returns as many items per request as the page size the
\* iterator asks for, min(L, maxQueryLimit), and min(C, T - o) items when the
\* server's page size C is smaller (the first short page ends the iteration).
C3_ExactlyMinWhenPagesAreFull ==
    (requestedLimit > 0 /\ requestedOffset <= totalCount /\ iterator.selected)
        => /\ Len(yielded) <= requestedLimit
           /\ YieldedInOrder
           /\ iterRet = "StopIteration" =>
                Len(yielded) =
                    IF serverPageSize >= iterator.limit
                    THEN Min(requestedLimit, totalCount - requestedOffset)
                    ELSE Min(serverPageSize, totalCount - requestedOffset)

\* a limit beyond one page cuts the iteration short of the collection's end
C3_Witness ==
    /\ iterRet = "StopIteration"
    /\ requestedLimit > maxQueryLimit
    /\ requestedLimit < totalCount - requestedOffset
    /\ serverPageSize >= maxQueryLimit
    /\ Len(yielded) = requestedLimit

\* C4: an indexed read of the un-materialized collection at an index outside
\* [-length, length) raises IndexError.
C4_OutOfRangeReadRaises ==
    (LazyRead /\ (lastOp.arg >= QueryResultLen(qr) \/ lastOp.arg < -QueryResultLen(qr)))
        => ret.tag = "IndexError"

\* C5: on the un-materialized collection of length n, get(-k) returns the
\* same item as get(n - k) for 1 <= k <= n.
C5_NegativeIndexCountsFromLength ==
    ~qr.fetchedAll =>
        \A i \in ReadIndexes(QueryResultLen(qr)) :
            (i < 0 /\ i >= -QueryResultLen(qr)) =>
                LET neg == QueryResultGetItem(qr, i, totalCount, serverPageSize, << >>).ret
                    pos == QueryResultGetItem(qr, QueryResultLen(qr) + i,
                                              totalCount, serverPageSize, << >>).ret
                IN  neg.tag = "item" /\ neg = pos

\* get(-1) has returned the last item of a collection of more than one page
C5_Witness ==
    /\ LazyRead
    /\ lastOp.arg = -1
    /\ QueryResultLen(qr) > maxQueryLimit
    /\ ret.tag = "item"
    /\ ret.val = requestedOffset + QueryResultLen(qr) - 1

\* C6: the length of the un-materialized QueryResult(o, L) is the number of
\* items that draining QueryIterator(o, L) produces.
C6_LazyLengthIsIteratorCount ==
    ~qr.fetchedAll =>
        QueryResultLen(qr) =
            Len(Drain(QueryIterator(requestedOffset, requestedLimit),
                      totalCount, serverPageSize).items)

\* len() of a collection whose limit ends it after the first page and before
\* the backend's last item
C6_Witness ==
    /\ lastOp.name = "len"
    /\ ~qr.fetchedAll
    /\ ret.val = requestedLimit
    /\ ret.val > maxQueryLimit
    /\ ret.val < totalCount - requestedOffset

\* C7: the length of the un-materialized collection is
\* min(limit, total - offset) for a limit other than 0 and total - offset for
\* limit 0, floored at 0, where total is the total that the collection's most
\* recent page fetch reported.
C7_LazyLengthFormula ==
    ~qr.fetchedAll =>
        /\ QueryResultLen(qr) >= 0
        /\ QueryResultLen(qr) =
              Max(0, IF requestedLimit # 0
                     THEN Min(requestedLimit, qr.meta.total_count - requestedOffset)
                     ELSE qr.meta.total_count - requestedOffset)
        /\ fetches > 0 => qr.meta.total_count = totalCount

\* a page fetch reported another total, and the length is no longer the one
\* the collection was constructed with
C7_Witness ==
    /\ LazyRead
    /\ fetches = 1
    /\ qr.meta.total_count = totalCount
    /\ QueryResultLen(qr) # Len(plain)
    /\ QueryResultLen(qr) > 0

MaterializingMethods ==
    {"setitem", "setslice", "delitem", "delslice", "append", "extend", "insert",
     "index", "pop", "count", "remove", "reverse", "sort", "iadd", "add",
     "rmul", "mul", "imul", "reversed", "contains",
     "eq", "ne", "lt", "gt", "le", "ge"}

\* C8: a materializing method leaves the collection materialized, and from
\* then on the collection holds what a plain list of the range (o, L) holds
\* after the same operations, and every operation returns or raises on it
\* what it does on that plain list.
C8_MaterializedBehavesAsPlainList ==
    /\ lastOp.name \in MaterializingMethods => qr.fetchedAll
    /\ qr.fetchedAll =>
        /\ qr.list = plain
        /\ ret = plainRet
        /\ LazyLen(qr) = Len(plain)

\* append(x) on a collection of more than one page: one item more, the last
\* one is x
C8_Witness ==
    /\ lastOp = Op("append", TestItem)
    /\ qr.fetchedAll
    /\ fetches > 1
    /\ Len(qr.list) = Len(PlainRange(totalCount, requestedOffset, requestedLimit)) + 1
    /\ Len(qr.list) > maxQueryLimit
    /\ qr.list[Len(qr.list)] = TestItem
    /\ SubSeq(qr.list, 1, Len(qr.list) - 1)
          = PlainRange(totalCount, requestedOffset, requestedLimit)

C10_MaterializedForGood ==
    [][qr.fetchedAll =>
        /\ qr'.fetchedAll
        /\ fetches' = 0
        /\ lastOp'.name = "FetchAll" => qr' = qr]_vars

\* FetchAll called on a collection that a list method had materialized
C10_Witness ==
    /\ lastOp.name = "FetchAll"
    /\ fetches = 0
    /\ qr.fetchedAll
    /\ opsDone > 0
    /\ Len(qr.list) > maxQueryLimit

\* C11: every query that a lazy collection issues, at construction, on a
\* cache miss and through the iterator that FetchAll drains, asks for at
\* least 1 and at most maxQueryLimit items, whatever limit the caller
\* requested (0, below the maximum, above it).
C11_RequestedPageSizeIsBounded ==
    \A i \in 1..Len(requests) :
        requests[i].limit >= 1 /\ requests[i].limit <= maxQueryLimit

\* FetchAll of a collection whose limit is above the maximum: more than one
\* query, each for the maximum page size
C11_Witness ==
    /\ lastOp.name = "FetchAll"
    /\ requestedLimit > maxQueryLimit
    /\ Len(requests) > 1
    /\ \A i \in 1..Len(requests) : requests[i].limit = maxQueryLimit

\* C12: when the query of a cache-miss read raises, the caller gets the
\* error and the collection keeps its cached page, the page's offset, its
\* meta (totalCount, limit, offset), its length and its un-materialized
\* status; the same read, of an index in [-length, length), repeated against
\* the recovered backend returns the item of the range after one query.
C12_FailedReadLeavesCollection ==
    [][lastOp'.name = "getitem fails" =>
        /\ ret' = FetchError
        /\ qr'.items = qr.items
        /\ qr'.currentOffset = qr.currentOffset
        /\ qr'.meta = qr.meta
        /\ QueryResultLen(qr') = QueryResultLen(qr)
        /\ ~qr'.fetchedAll
        /\ (lastOp'.arg >= -QueryResultLen(qr) /\ lastOp'.arg < QueryResultLen(qr)) =>
               LET again == QueryResultGetItem(qr', lastOp'.arg, totalCount,
                                               serverPageSize, << >>)
               IN  /\ again.ret.tag = "item"
                   /\ again.ret = plainRet'
                   /\ again.fetches = 1]_vars

\* a read beyond a cached page that an earlier read had moved has failed;
\* the page is still the moved one
C12_Witness ==
    /\ lastOp.name = "getitem fails"
    /\ ret = FetchError
    /\ qr.currentOffset # requestedOffset
    /\ ~qr.fetchedAll
    /\ Len(qr.items) > 0
    /\ lastOp.arg >= -QueryResultLen(qr)
    /\ lastOp.arg < QueryResultLen(qr)

\* C13: when a query raises during FetchAll, on the first page or on a later
\* one, the caller gets the error, the collection stays un-materialized with
\* an empty list, and calling the operation again fetches the whole range
\* from the requested offset: every item once, in order.
C13_FailedFetchAllLeavesUnmaterialized ==
    /\ lastOp.name \in {"FetchAll fails", "append fails"} =>
        /\ ret = FetchError
        /\ ~qr.fetchedAll
        /\ qr.list = << >>
        /\ LET again == FetchAll(qr, totalCount, serverPageSize)
           IN  /\ again.qr.fetchedAll
               /\ again.qr.list = PlainRange(totalCount, requestedOffset, requestedLimit)
               /\ again.requests[1].offset = requestedOffset
    /\ (failures > 0 /\ qr.fetchedAll) => qr.list = plain

\* append(x) has succeeded after FetchAll had failed on a page after the first
C13_Witness ==
    /\ lastOp = Op("append", TestItem)
    /\ failures > 0
    /\ fetches > 1
    /\ qr.fetchedAll
    /\ Len(qr.list) > maxQueryLimit
    /\ qr.list = Append(PlainRange(totalCount, requestedOffset, requestedLimit), TestItem)

\* C14 as stated: after every operation that fetched pages, totalCount, limit
\* and offset of a QueryResult are the total, the limit and the offset of the
\* latest page fetched, and an operation without a fetch leaves them alone;
\* right after construction with limit L, 0 < L <= maxQueryLimit, they are
\* T, L and o.
C14_Original_AccessorsOfLatestFetch ==
    [][qr.kind = "rest" =>
        /\ (lastOp.name = "init" /\ requestedLimit > 0
                /\ requestedLimit <= maxQueryLimit)
              => Accessors(qr) = <<totalCount, requestedLimit, requestedOffset>>
        /\ fetches' > 0 =>
              Accessors(qr') = <<totalCount', requests'[Len(requests')].limit,
                                 requests'[Len(requests')].offset>>
        /\ fetches' = 0 => Accessors(qr') = Accessors(qr)]_vars

\* C14 amended: totalCount, limit and offset of a QueryResult are the total,
\* the limit and the offset of the latest query that the collection issued
\* itself, at construction or on a cache miss; the pages that FetchAll (called
\* directly or by a list method) fetches through an iterator leave them
\* alone.  Right after construction with offset o and any limit they are T,
\* maxQueryLimit and o.
C14_AccessorsOfLatestOwnQuery ==
    [][qr.kind = "rest" =>
        /\ lastOp.name = "init"
              => Accessors(qr) = <<totalCount, maxQueryLimit, requestedOffset>>
        /\ (fetches' > 0 /\ lastOp'.name = "getitem") =>
              Accessors(qr') = <<totalCount', maxQueryLimit,
                                 requests'[Len(requests')].offset>>
        /\ (fetches' = 0 \/ lastOp'.name # "getitem")
              => Accessors(qr') = Accessors(qr)]_vars

\* FetchAll has fetched more than one page after a cache miss: the accessors
\* are still those of the miss
C14_Witness ==
    /\ qr.kind = "rest"
    /\ lastOp.name = "FetchAll"
    /\ fetches > 1
    /\ requestedLimit > 0
    /\ QueryResultOffset(qr) # requestedOffset
    /\ QueryResultOffset(qr) = qr.currentOffset
    /\ QueryResultLimit(qr) = maxQueryLimit
    /\ QueryResultTotalCount(qr) = totalCount

\* C15 as stated: constructing a lazy collection issues exactly one query,
\* at the requested offset and for the clamped maximum page size of the
\* requested limit, and the page returned is the cached page, at the
\* requested offset.
C15_Original_ConstructionFetchesClampedPage ==
    lastOp.name = "init" =>
        /\ requests = <<Request(requestedOffset, GetMaximumQueryLimit(requestedLimit))>>
        /\ qr.items = GetResponse(totalCount, serverPageSize, requestedOffset,
                                  GetMaximumQueryLimit(requestedLimit)).objects
        /\ qr.currentOffset = requestedOffset

\* C15 amended: constructing a lazy collection issues exactly one query, at
\* the requested offset; QueryResult asks for maxQueryLimit items whatever
\* the requested limit, LazyGraphQuery for 1 item; the page returned is the
\* cached page, at the requested offset.
C15_ConstructionFetchesOnePage ==
    lastOp.name = "init" =>
        LET size == IF qr.kind = "graph" THEN 1 ELSE maxQueryLimit
        IN  /\ fetches = 1
            /\ requests = <<Request(requestedOffset, size)>>
            /\ qr.items = GetResponse(totalCount, serverPageSize, requestedOffset,
                                      size).objects
            /\ qr.currentOffset = requestedOffset
            /\ ~qr.fetchedAll

\* a QueryResult constructed with a small limit at an offset: its cached
\* page is a full page from that offset on
C15_Witness ==
    /\ lastOp.name = "init"
    /\ qr.kind = "rest"
    /\ requestedOffset > 0
    /\ requestedLimit > 0
    /\ requestedLimit < maxQueryLimit
    /\ Len(qr.items) = maxQueryLimit
    /\ qr.items[1] = requestedOffset

\* C16: scenes[start:stop], 0 <= start <= stop <= len(scenes), read from a
\* freshly constructed lazy collection is the same slice of the plain list
\* of the range.
C16_SliceOfFreshCollection ==
    (lastOp.name = "getslice" /\ ~qr.fetchedAll) => ret = plainRet

\* C17: the dict a decorated graph method returns has the key meta, bound
\* to the server's totalCount, exactly when the caller's fields select
\* meta.totalCount; has __typename only when the caller selected it or
\* selected nothing; has the collection key, bound to the lazy collection,
\* only when the caller selected the collection.
C17_ResponseHoldsCallerSelection ==
    (callerFields.form # "idle" /\ returned.raised = "none") =>
        /\ "meta" \in returned.keys <=>
               (callerFields.form = "dict" /\ callerFields.metaFields = "totalCount")
        /\ "meta" \in returned.keys => returned.metaTotalCount = totalCount
        /\ "__typename" \in returned.keys =>
               ("__typename" \in callerFields.names \/ callerFields.names = {})
        /\ "environments" \in returned.keys =>
               /\ "environments" \in callerFields.names
               /\ returned.queryResult = LazyGraphQuery(totalCount, serverPageSize,
                                                        requestedOffset, requestedLimit)

\* a caller who selected the collection and an empty meta got the
\* collection back, and no meta, though meta.totalCount was queried
C17_Witness ==
    /\ callerFields = CallerFields("dict", {"environments", "meta"}, "empty")
    /\ returned.raised = "none"
    /\ returned.keys = {"environments"}
    /\ totalCount = MaxTotal
    /\ requestedOffset = SmallOffset

\* C18: a GraphQueryIterator whose fields select no collection, so that the
\* page response holds meta and __typename at most, yields no item and
\* every next() ends the iteration, for every requested offset and limit.
C18_NoCollectionFieldYieldsNothing ==
    (iterator.kind = "graph" /\ ~iterator.selected) =>
        /\ yielded = << >>
        /\ iterRet \in {"none", "StopIteration"}
        /\ iterator.items = << >>
        /\ iterator.count = 0

\* such an iterator, asked for more than a page from a non-zero offset of
\* a backend that holds items, has been called and has stopped
C18_Witness ==
    /\ iterator.kind = "graph"
    /\ ~iterator.selected
    /\ iterRet = "StopIteration"
    /\ requests = <<Request(SmallOffset, maxQueryLimit)>>
    /\ requestedLimit = maxQueryLimit + 1
    /\ totalCount = MaxTotal

\* C19: a lazy collection that is not materialized holds one page at most:
\* its page buffer has no more than maxQueryLimit items and its own list
\* storage is empty; the list storage holds items only once the collection
\* is materialized.
C19_OnePageUntilMaterialized ==
    /\ ~qr.fetchedAll => (Len(qr.items) <= maxQueryLimit /\ qr.list = << >>)
    /\ qr.list # << >> => qr.fetchedAll

\* an un-materialized collection of more than two pages that has moved its
\* page by a read and holds a full page
C19_Witness ==
    /\ ~qr.fetchedAll
    /\ lastOp.name = "getitem"
    /\ fetches = 1
    /\ Len(qr.items) = maxQueryLimit
    /\ qr.currentOffset # requestedOffset
    /\ totalCount = MaxTotal

\* each instance is where the same operations leave it when it is alone,
\* and has returned what it returns alone
SameAsAlone(i) ==
    LET alone == RunAlone(constructed[i], GraphQueryIteratorClass, calls[i],
                          totalCount, serverPageSize)
    IN  /\ Self(instances[i], classAttrs) = Self(alone.inst, alone.cls)
        /\ results[i] = alone.outs

\* an operation on the other instance leaves instance i as it was
LeftAlone(i) ==
    calls'[i] = calls[i] =>
        /\ instances'[i] = instances[i]
        /\ Self(instances'[i], classAttrs') = Self(instances[i], classAttrs)

\* C20: two instances share no mutable state: under every interleaving of
\* operations each instance returns the same results and ends in the same
\* state as when it is run alone, and an operation on one instance leaves
\* the other's buffer, offset, counters and stop flag unchanged.  This
\* includes GraphQueryIterator instances, whose buffer, stop flag and
\* counter start as class attributes.
C20_InstancesAreIndependent ==
    /\ [](instances # << >> => (SameAsAlone(1) /\ SameAsAlone(2)))
    /\ [][instances # << >> => (LeftAlone(1) /\ LeftAlone(2))]_vars

\* two GraphQueryIterator instances with different offsets, both called
\* twice: the first holds a buffer of its own, the second has run dry
C20_Witness ==
    /\ instances # << >>
    /\ instances[1].type = "iterator" /\ instances[1].dict.kind = "graph"
    /\ instances[2].type = "iterator" /\ instances[2].dict.kind = "graph"
    /\ constructed[1].bound = {} /\ constructed[2].bound = {}
    /\ Len(calls[1]) = 2 /\ Len(calls[2]) = 2
    /\ Len(instances[1].dict.items) > 0
    /\ instances[2].dict.items = << >>
    /\ instances[2].dict.shouldStop
    /\ results[1][1] = Item(0)
    /\ results[2][1] = Item(SmallOffset)
    /\ classAttrs = GraphQueryIteratorClass

\* the backend's answer to query q is shorter than the page asked for
ShortPage(q) ==
    Len(GetResponse(totalCount, serverPageSize, q.offset, q.limit).objects) < q.limit

\* with limit 0 the stop flag is set by the call that received a short page,
\* by no other, and no query follows it
StopsAtShortPage ==
    (requestedLimit = 0 /\ iterator.selected) =>
        /\ requests' # << >> => (iterator'.shouldStop <=> ShortPage(requests'[1]))
        /\ requests' = << >> => iterator'.shouldStop = iterator.shouldStop
        /\ iterator.shouldStop => requests' = << >>
        /\ iterRet' = "StopIteration" => iterator'.shouldStop

\* C21: repeated next() on an iterator ends with StopIteration; with a
\* limit L > 0 no more than L items are yielded whatever pages the backend
\* returns; with limit 0 the iteration ends once the backend has returned
\* a page shorter than the page size asked for, and not before.
C21_IterationEnds ==
    /\ <>(iterRet = "StopIteration")
    /\ [](requestedLimit > 0 => Len(yielded) <= requestedLimit)
    /\ [][StopsAtShortPage]_vars

\* an iterator with a limit of more than a page over an empty backend has
\* ended after exactly that many items: its pages were longer than asked for
C21_Witness ==
    /\ iterRet = "StopIteration"
    /\ requestedLimit = maxQueryLimit + 1
    /\ Len(yielded) = requestedLimit
    /\ Len(requests) = 0
    /\ totalCount = 0
    /\ iterator.offset > requestedOffset + requestedLimit

\* a read of scenes[i0], in range, of an un-materialized collection: served
\* from the cached page without a change when the item's offset is in it,
\* and else by one query at that offset whose page becomes the cached page
ReadHitsOrFetchesOnce(i0) ==
    LET n      == QueryResultLen(qr)
        index  == IF i0 < 0 THEN n + i0 ELSE i0
        offset == qr.offset + index
    IN  (-n <= i0 /\ i0 < n) =>
            IF offset >= qr.currentOffset /\ offset < qr.currentOffset + Len(qr.items)
            THEN fetches' = 0 /\ requests' = << >> /\ qr' = qr
            ELSE /\ fetches' = 1
                 /\ requests' = <<Request(offset, maxQueryLimit)>>
                 /\ qr'.currentOffset = offset
                 /\ qr'.items = GetResponse(totalCount, serverPageSize, offset,
                                            maxQueryLimit).objects

\* C22: an in-range indexed read of an un-materialized collection issues no
\* query and changes nothing when requested offset + index lies in the
\* cached page; otherwise it issues exactly one query, at that offset, whose
\* page replaces the cached page.  No indexed read issues more than one
\* query.
C22_ReadFetchesAtMostOnePage ==
    [][(lastOp'.name = "getitem" /\ ~qr.fetchedAll) =>
           (ReadHitsOrFetchesOnce(lastOp'.arg) /\ fetches' <= 1)]_vars

\* a call of next() whose query raised hands the caller that exception
\* after the one query, and leaves offset, buffer, count and stop flag
FailedNextLeavesIterator ==
    iterRet' = "FetchError" =>
        /\ iterator' = iterator
        /\ yielded' = yielded
        /\ requests' = <<Request(iterator.offset, iterator.limit)>>

\* the call that follows a failed one asks for the same page again
NextAfterFailureAsksAgain ==
    (iterRet = "FetchError" /\ requests' # << >>) => requests'[1] = requests[1]

\* C23: when the query function raises during next(), the exception
\* reaches the caller after that one query, and the iterator's offset,
\* buffer, count and stop flag are unchanged; the next call asks for the
\* same page again, and the items yielded overall are those of the range,
\* in order, none skipped and none repeated.
C23_FailedNextLeavesIterator ==
    /\ [][FailedNextLeavesIterator /\ NextAfterFailureAsksAgain]_vars
    /\ [](iterator.selected =>
             /\ YieldedInOrder
             /\ iterRet = "StopIteration" =>
                    Len(yielded) = Len(PlainRange(totalCount, requestedOffset,
                                                  requestedLimit)))

\* an iterator over three pages, MaxFailures of whose queries failed, has
\* ended with every item of the range
C23_Witness ==
    /\ failures = MaxFailures
    /\ iterRet = "StopIteration"
    /\ iterator.selected
    /\ totalCount = MaxTotal
    /\ requestedLimit = 0
    /\ Len(yielded) = totalCount - requestedOffset
    /\ requestedOffset = SmallOffset


\* a next() called on an iterator that has signalled the end signals it
\* again, yields nothing, leaves the iterator as it is and asks the server
\* nothing
EndedStaysEnded ==
    iterRet = "StopIteration" =>
        /\ iterRet' = "StopIteration"
        /\ yielded' = yielded
        /\ iterator' = iterator
        /\ opsDone' # opsDone => requests' = << >>

\* C24: a sequential iterator is exhausted for good: once next() has raised
\* StopIteration, every later next() of the same instance raises it again,
\* returns no item and issues no page fetch, for a QueryIterator and for a
\* GraphQueryIterator, the one whose fields select no collection included.
C24_ExhaustedForGood ==
    [][EndedStaysEnded]_vars


\* C25: an iterator constructed from a decorated query method issues every
\* page fetch by calling the undecorated function with the bound instance as
\* first positional argument and never calls the wrapper; the fetches of a
\* lazy collection, its construction fetch, its indexed reads and FetchAll,
\* go to the undecorated function with that instance too.
C25_FetchesGoToUndecorated ==
    \A i \in DOMAIN invoked :
        /\ invoked[i].callee = "function"
        /\ invoked[i].firstArg = callerFunction.bself


\* iter(collection), and the next() calls that follow it, leave the cached
\* page, its offset, the metadata and the list storage as they are, and the
\* collection not materialized
IterLeavesCollection ==
    lastOp'.name = "iter" =>
        /\ qr'.items = qr.items
        /\ qr'.currentOffset = qr.currentOffset
        /\ qr'.meta = qr.meta
        /\ qr'.list = qr.list
        /\ ~qr'.fetchedAll

Blocks(k, b) == (k + b - 1) \div b

\* C27: reading the indices 0, 1, ..., n - 1 in increasing order from a
\* freshly constructed lazy collection of length n > 0 over a fixed backend
\* issues ceil(n / maxQueryLimit) page fetches in total, the construction
\* fetch included: after the first k reads ceil(k / maxQueryLimit) fetches
\* have been issued, so a read fetches exactly when it enters a new block;
\* this holds whatever the size of the pages the server returns, and every
\* read returns the item of its index when the server returns full pages.
C27_SequentialReadFetchesPerBlock ==
    (lastOp.name = "getitem") =>
        /\ fetches = Blocks(opsDone, maxQueryLimit)
        /\ serverPageSize >= maxQueryLimit => ret = Item(requestedOffset + opsDone - 1)
        /\ opsDone = QueryResultLen(qr) =>
               fetches = Blocks(Len(plain), maxQueryLimit)

\* all the indices of a collection of more than two pages, asked for from a
\* non-zero offset, have been read
C27_Witness ==
    /\ lastOp.name = "getitem"
    /\ opsDone = QueryResultLen(qr)
    /\ opsDone = MaxTotal - SmallOffset
    /\ requestedOffset = SmallOffset
    /\ serverPageSize = maxQueryLimit
    /\ fetches = 2


\* UnsubscribeGraphAPI returns
UnsubscribeReturns == apiCall.entry = "Unsubscribe" /\ apiCall'.entry = "none"

\* the call found its subscription in the table
Registered == apiCall.subject \in apiCall.seenSubs

\* the table and the websocket are as the call found them
LeftAsFound ==
    /\ subscriptions' = apiCall.seenSubs
    /\ webSocket' = apiCall.seenSocket

\* the subscription alone is gone; the websocket is closed if it was the
\* last one and is the open one it was if others remain
OnlyThatRemoved ==
    /\ subscriptions' = apiCall.seenSubs \ {apiCall.subject}
    /\ webSocket' = IF apiCall.seenSubs = {apiCall.subject} THEN NoSocket
                    ELSE apiCall.seenSocket

\* C28 as stated: UnsubscribeGraphAPI of a registered subscription removes
\* that subscription only, closes the websocket when it was the last one and
\* keeps it open when others remain; for a subscription that is not
\* registered it changes nothing.
C28_Original_UnsubscribeRemovesOnlyThat ==
    [][UnsubscribeReturns =>
          /\ ~Registered => LeftAsFound
          /\ (Registered /\ apiCall.seenSocket # NoSocket) => OnlyThatRemoved]_vars

\* C28: UnsubscribeGraphAPI of a registered subscription whose 'stop'
\* message is sent removes that subscription only, closes the websocket
\* when it was the last one and keeps it open when others remain; when
\* sending 'stop' raises, every subscription is dropped and the websocket is
\* closed; for a subscription that is not registered, or without a
\* websocket, it changes nothing.
C28_UnsubscribeRemovesOnlyThatWhenSent ==
    [][UnsubscribeReturns =>
          /\ (~Registered \/ apiCall.seenSocket = NoSocket) => LeftAsFound
          /\ (Registered /\ apiCall.seenSocket # NoSocket) =>
                 IF coroutine.threw
                 THEN subscriptions' = {} /\ webSocket' = NoSocket
                 ELSE OnlyThatRemoved]_vars

\* UnsubscribeGraphAPI is about to return after it removed one of two
\* subscriptions and left the websocket open
C28_Witness ==
    /\ apiCall.entry = "Unsubscribe"
    /\ apiCall.step = "waitResult"
    /\ coroutine = Coroutine("unsubscribe", "done", FALSE)
    /\ Cardinality(apiCall.seenSubs) = 2
    /\ subscriptions = apiCall.seenSubs \ {apiCall.subject}
    /\ webSocket = apiCall.seenSocket
    /\ webSocket # NoSocket

\* C29: whenever no SubscribeGraphAPI, UnsubscribeGraphAPI or Destroy call
\* is in progress, a table that is not empty implies an open websocket on
\* which every registered subscription was started, after any sequence of
\* subscribe, unsubscribe, send failures and listener failures.
C29_RegisteredMeansStarted ==
    (apiCall = NoCall /\ subscriptions # {}) =>
        /\ webSocket # NoSocket
        /\ \A id \in subscriptions : <<id, webSocket>> \in started

\* C30: SubscribeGraphAPI, UnsubscribeGraphAPI and Destroy always return:
\* the caller thread, holding the lock and blocked on the result of a
\* coroutine that has not finished, and the event-loop thread, blocked in
\* the listener's acquire of the same lock, never wait on each other.
C30_NoMutualWait ==
    ~(/\ subscriptionLock = "caller"
      /\ apiCall.step \in {"waitOpen", "waitResult"}
      /\ coroutine.stage # "done"
      /\ LoopBlocked)

=============================================================================
